---- MODULE Spec2Model ----
(***************************************************************************)
(* A model of the scene graph of src/src/scene.c: the process-wide scene   *)
(* arena, the per-scene node arena with generation-stamped handles, the    *)
(* parent / first-child / next-sibling links, and the lazily recomputed    *)
(* local-to-world transform.                                               *)
(*                                                                         *)
(* Matrices are reduced to their diagonal m0, m5, m10 and the x            *)
(* translation m12: positions lie on the x axis, scales are uniform and    *)
(* rotations are multiples of 180 degrees about the y axis, so every other *)
(* entry of raymath's 4x4 matrices stays 0.  Positions, scales and         *)
(* rotations are integers.                                                 *)
(*                                                                         *)
(* A write through a null pointer ends the process (status "crashed"), a   *)
(* loop that never ends leaves it hanging (status "hung"); no operation    *)
(* runs after either.                                                      *)
(***************************************************************************)
EXTENDS Integers, Sequences, FiniteSets, TLC

VARIABLES
    scenes,     \* the scene arena: scenes[i + 1] is slot i; <<>> is the null array
    status,     \* "ok" | "crashed" | "hung"
    call,       \* the API call made last, with its arguments and what it returned
    issued,     \* every node handle AcquireSceneNode has returned
    released,   \* every node handle passed to ReleaseSceneNode while it was valid
    sceneIds,   \* every scene handle LoadScene has returned
    unloaded,   \* every scene handle passed to UnloadScene while it was valid
    lineage,    \* per issued node handle: what the caller did with it so far
    calls,      \* the number of API calls made so far
    watch,      \* the query / move-an-ancestor / query pattern the last calls form
    registered, \* every AddModelToScene that stored a record, in call order, with
                \* the number of UnloadModel calls made for that record
    loaded,     \* the scene indices the program has loaded and not unloaded since
    materials,  \* per raylib Model: the diffuse colour of each of its materials
    heap        \* every block handed out by MemAlloc on behalf of a scene (node
                \* array, model array, mesh bounds, mesh spheres, name copy), with
                \* the number of MemFree calls made on it

vars ==
    <<scenes, status, call, issued, released, sceneIds, unloaded, lineage, calls, watch,
      registered, loaded, materials, heap>>

---------------------------------------------------------------------------
\* Bounds of the model.

\* node slots a scene may grow to
MaxNodes == 3
\* node slots of a scene in a run about child lists: a parent and three
\* children
MaxListNodes == 4
\* scene slots the arena may grow to
MaxScenes == 2
\* cap of a node's modTRSGeneration counter
MaxModGen == 2
\* largest coordinate a caller passes to SetSceneNodePosition
MaxCoord == 1
\* API calls of a run that builds and tears down scenes and hierarchies
MaxCalls == 8
\* API calls of a run that also moves nodes and queries transforms
MaxQueryCalls == 7
\* API calls of a run that registers models and draws
MaxDrawCalls == 6
\* API calls of a run that moves nodes in and out of the camera frustum
MaxCullCalls == 8
\* the largest modTRSGeneration of such a run
MaxCullModGen == 3
\* API calls of such a run by a caller that sets its scene up first
MaxCullDeepCalls == 12
\* model records per run
MaxModels == 2
\* API calls of a run that also passes handles no call returned
MaxProbeCalls == 5
\* API calls of a run of acquisitions, parentings, moves and position queries
MaxDeepCalls == 11
\* calls per run of the specification of named nodes
MaxNameCalls == 8

---------------------------------------------------------------------------
\* Handles (src/src/scene.h).

ZeroSceneId == [id |-> 0, generation |-> 0]

ZeroNodeId == [sceneId |-> ZeroSceneId, id |-> 0, generation |-> 0]

ZeroModelId == [ownerSceneId |-> ZeroSceneId, id |-> 0, generation |-> 0]

SceneIdOf(id, generation) == [id |-> id, generation |-> generation]

SceneNodeIdOf(sceneId, id, generation) ==
    [sceneId |-> sceneId, id |-> id, generation |-> generation]

\* Matrices: the diagonal m0, m5, m10 and the x translation m12.
MatrixIdentity == [m0 |-> 1, m5 |-> 1, m10 |-> 1, m12 |-> 0]

MatrixScale(s) == [m0 |-> s, m5 |-> s, m10 |-> s, m12 |-> 0]

\* rotation about the y axis, in degrees; cos(180 degrees) = -1
MatrixRotateXYZ(deg) ==
    [m0 |-> IF deg % 360 = 180 THEN -1 ELSE 1,
     m5 |-> 1,
     m10 |-> IF deg % 360 = 180 THEN -1 ELSE 1,
     m12 |-> 0]

MatrixTranslate(x) == [m0 |-> 1, m5 |-> 1, m10 |-> 1, m12 |-> x]

\* raymath: the result transforms by left first, then by right
MatrixMultiply(left, right) ==
    [m0 |-> left.m0 * right.m0,
     m5 |-> left.m5 * right.m5,
     m10 |-> left.m10 * right.m10,
     m12 |-> left.m12 * right.m0 + right.m12]

---------------------------------------------------------------------------
\* Records.

\* a slot as ListAlloc leaves it: every byte zero (the pointer name is kept
\* as the text it points to, name, and the copy it points to, nameBlock)
ZeroNode ==
    [generation |-> 0,
     parent |-> ZeroNodeId,
     nextSiblingId |-> ZeroNodeId,
     firstChildId |-> ZeroNodeId,
     modTRSGeneration |-> 0,
     modTRSMarker |-> 0,
     position |-> 0,
     rotation |-> 0,
     scale |-> 0,
     name |-> 0,
     nameBlock |-> 0,
     localToWorld |-> [m0 |-> 0, m5 |-> 0, m10 |-> 0, m12 |-> 0],
     userIdentifier |-> 0,
     model |-> ZeroModelId]

\* the compound literal LoadScene stores: everything but the generation zero
\* (models = <<>> is the null pointer; modelsCount is kept apart because
\* UnloadScene frees the array without resetting the count)
NewScene(generation) ==
    [generation |-> generation, firstFree |-> ZeroNodeId, nodes |-> <<>>,
     models |-> <<>>, modelsCount |-> 0]

\* ListAlloc: append one zeroed element
ListAlloc(list, zero) == Append(list, zero)

---------------------------------------------------------------------------
\* Handle resolution.

\* variant: a scene lookup that checks the index alone
IsSceneValidByIndex(sc, sceneId) == sceneId.id < Len(sc)

IsSceneValid(sc, sceneId) ==
    /\ sceneId.id < Len(sc)
    /\ sc[sceneId.id + 1].generation = sceneId.generation

\* GetSceneNode(...) != 0.  The early returns of the code, in order.
GetSceneNodeFound(sc, h) ==
    IF ~IsSceneValid(sc, h.sceneId) THEN FALSE
    ELSE IF h.id >= Len(sc[h.sceneId.id + 1].nodes) THEN FALSE
    ELSE IF sc[h.sceneId.id + 1].nodes[h.id + 1].generation # h.generation THEN FALSE
    ELSE TRUE

IsSceneNodeValid(sc, h) == GetSceneNodeFound(sc, h)

\* the slot a valid handle resolves to
NodeAt(sc, h) == sc[h.sceneId.id + 1].nodes[h.id + 1]

\* the arena with one field of the slot of h overwritten
SetField(sc, h, f, v) ==
    [sc EXCEPT ![h.sceneId.id + 1].nodes[h.id + 1] =
        [sc[h.sceneId.id + 1].nodes[h.id + 1] EXCEPT ![f] = v]]

---------------------------------------------------------------------------
\* Scene arena: LoadScene, UnloadScene.

\* what a scene slot that realloc() added holds before LoadScene writes it:
\* MemRealloc does not clear the bytes it adds
UninitGenerations == {-1, 0, 1}

\* index of the first slot with generation < 0, or -1
FirstFreeSceneIndex(sc) ==
    IF \E i \in 1..Len(sc) : sc[i].generation < 0
    THEN (CHOOSE i \in 1..Len(sc) :
            /\ sc[i].generation < 0
            /\ \A j \in 1..(i - 1) : sc[j].generation >= 0) - 1
    ELSE -1

\* variant: a LoadScene that stamps -old on the slot
LoadedGenerationNoStep(old) == -old

\* the generation LoadScene stamps on the slot: -old + 1
LoadedGeneration(old) == (-old) + 1

\* LoadScene; garbage is what the slot holds when the arena had to grow by
\* realloc (the first slot of a null arena comes zeroed from MemAlloc)
LoadSceneResult(sc, garbage) ==
    LET free == FirstFreeSceneIndex(sc)
        useIndex == IF free = -1 THEN Len(sc) ELSE free
        old == IF free # -1 THEN sc[free + 1].generation
               ELSE IF Len(sc) = 0 THEN 0 ELSE garbage
        sceneId == SceneIdOf(useIndex, LoadedGeneration(old))
        grown == IF free = -1 THEN Append(sc, NewScene(old)) ELSE sc
    IN  [scenes |-> [grown EXCEPT ![useIndex + 1] = NewScene(sceneId.generation)],
         ret |-> sceneId]

\* node->name = 0 after MemFree(node->name)
ClearedName(block) == 0

\* the node loop of UnloadScene: names of slots with generation >= 0 are freed
UnloadNodeNames(nodes) ==
    [i \in 1..Len(nodes) |->
        IF nodes[i].generation < 0 THEN nodes[i]
        ELSE [nodes[i] EXCEPT !.name = 0, !.nameBlock = ClearedName(nodes[i].nameBlock)]]

\* no slot holds a scene with generation > 0: the arena is freed
NoSceneLoaded(sc) == \A i \in 1..Len(sc) : ~(sc[i].generation > 0)

\* the model loop of UnloadScene reads models[0 .. modelsCount - 1]: through
\* a null pointer when the array was freed by an earlier UnloadScene
UnloadSceneCrashes(sc, sceneId) ==
    /\ IsSceneValid(sc, sceneId)
    /\ sc[sceneId.id + 1].modelsCount > 0
    /\ sc[sceneId.id + 1].models = <<>>

\* the registrations for which the model loop of UnloadScene calls UnloadModel
UnloadedModels(sc, sceneId) ==
    IF ~IsSceneValid(sc, sceneId) THEN {}
    ELSE LET models == sc[sceneId.id + 1].models
         IN  {models[i].reg : i \in {j \in 1..Len(models) :
                 ~(models[j].generation < 0 \/ models[j].isManaged = 0)}}

UnloadSceneResult(sc, sceneId) ==
    IF ~IsSceneValid(sc, sceneId) THEN sc
    ELSE LET s == sceneId.id + 1
             sc1 == [sc EXCEPT ![s].generation = -sc[s].generation,
                               ![s].models = <<>>,
                               ![s].nodes = UnloadNodeNames(sc[s].nodes)]
         IN  IF NoSceneLoaded(sc1) THEN <<>> ELSE sc1

---------------------------------------------------------------------------
\* Node arena: AcquireSceneNode, SetSceneNodeParent, ReleaseSceneNode.

\* variant: a new node whose marker already equals its modification generation
AcquiredNodeMarked(oldGeneration) ==
    [ZeroNode EXCEPT !.generation = oldGeneration + 1,
                     !.scale = 1,
                     !.modTRSMarker = 1,
                     !.modTRSGeneration = 1,
                     !.localToWorld = MatrixIdentity]

\* the compound literal AcquireSceneNode stores in the slot
AcquiredNode(oldGeneration) ==
    [ZeroNode EXCEPT !.generation = oldGeneration + 1,
                     !.scale = 1,
                     !.modTRSMarker = 0,
                     !.modTRSGeneration = 1,
                     !.localToWorld = MatrixIdentity]

\* variant: the handle carries the slot's generation before the increment
StaleReturnedNodeId(sceneId, index, node) ==
    SceneNodeIdOf(sceneId, index, node.generation - 1)

\* the handle AcquireSceneNode returns for the slot it filled
ReturnedNodeId(sceneId, index, node) == SceneNodeIdOf(sceneId, index, node.generation)

\* variant: a scene lookup for AcquireSceneNode that checks the index alone
GetSceneByIndex(sc, sceneId) == sceneId.id < Len(sc)

\* GetScene returns a scene (not null)
GetSceneFound(sc, sceneId) == IsSceneValid(sc, sceneId)

AcquireSceneNodeResult(sc, sceneId) ==
    IF ~GetSceneFound(sc, sceneId) THEN [scenes |-> sc, ret |-> ZeroNodeId]
    ELSE LET s == sceneId.id + 1
             firstFree == sc[s].firstFree
         IN  IF ~GetSceneNodeFound(sc, firstFree)
             THEN LET sc1 == [sc EXCEPT ![s].nodes = ListAlloc(sc[s].nodes, ZeroNode)]
                      index == Len(sc1[s].nodes) - 1
                      node == AcquiredNode(sc1[s].nodes[index + 1].generation)
                  IN  [scenes |-> [sc1 EXCEPT ![s].nodes[index + 1] = node],
                       ret |-> ReturnedNodeId(sceneId, index, node)]
             ELSE LET old == NodeAt(sc, firstFree)
                      sc1 == [sc EXCEPT ![s].firstFree = old.nextSiblingId]
                      node == AcquiredNode(old.generation)
                  IN  [scenes |-> [sc1 EXCEPT
                          ![firstFree.sceneId.id + 1].nodes[firstFree.id + 1] = node],
                       ret |-> ReturnedNodeId(sceneId, firstFree.id, node)]

\* the modification generation SetSceneNodeParent leaves on the node
ReparentedModGeneration(old) == 0

\* variant: no comparison of the two scene indices
AnySceneIndex(h, p) == TRUE

\* the first test of SetSceneNodeParent: the scene indices of the two handles
SameSceneIndex(h, p) == p.sceneId.id = h.sceneId.id

SetSceneNodeParentResult(sc, h, p) ==
    IF ~SameSceneIndex(h, p) THEN sc
    ELSE IF ~GetSceneNodeFound(sc, h) THEN sc
    ELSE IF ~GetSceneNodeFound(sc, p) THEN sc
    ELSE LET sc1 == SetField(sc, h, "parent", p)
             sc2 == SetField(sc1, h, "nextSiblingId", NodeAt(sc1, p).firstChildId)
             sc3 == SetField(sc2, p, "firstChildId", h)
         IN  SetField(sc3, h, "modTRSGeneration",
                      ReparentedModGeneration(NodeAt(sc3, h).modTRSGeneration))

\* variant: a release that leaves the slot's generation as it is
KeptGeneration(g) == g

\* the generation ReleaseSceneNode leaves in the slot: node->generation++
ReleasedGeneration(g) == g + 1

\* The sibling scan of ReleaseSceneNode, from the sibling siblingId on: the
\* handle of the sibling whose nextSiblingId has the index of h, or
\* "crashed" when the scan runs off the list (sibling is null at the write
\* after the loop), or "hung" when it circles (fuel: one step per slot).
RECURSIVE SiblingScan(_, _, _, _)
SiblingScan(sc, siblingId, h, fuel) ==
    IF ~GetSceneNodeFound(sc, siblingId) THEN [status |-> "crashed", at |-> siblingId]
    ELSE IF NodeAt(sc, siblingId).nextSiblingId.id = h.id
         THEN [status |-> "ok", at |-> siblingId]
    ELSE IF fuel = 0 THEN [status |-> "hung", at |-> siblingId]
    ELSE SiblingScan(sc, NodeAt(sc, siblingId).nextSiblingId, h, fuel - 1)

\* variant: an unlink that handles the head of the child list only
RemoveFromParentHeadOnly(sc, h) ==
    LET node == NodeAt(sc, h)
    IN  IF ~GetSceneNodeFound(sc, node.parent) THEN [scenes |-> sc, status |-> "ok"]
        ELSE IF NodeAt(sc, node.parent).firstChildId.id = h.id
             THEN [scenes |-> SetField(sc, node.parent, "firstChildId", node.nextSiblingId),
                   status |-> "ok"]
             ELSE [scenes |-> sc, status |-> "ok"]

\* "remove from parent child list"
RemoveFromParent(sc, h) ==
    LET node == NodeAt(sc, h)
    IN  IF ~GetSceneNodeFound(sc, node.parent) THEN [scenes |-> sc, status |-> "ok"]
        ELSE LET siblingId == NodeAt(sc, node.parent).firstChildId
             IN  IF siblingId.id = h.id
                 THEN [scenes |-> SetField(sc, node.parent, "firstChildId",
                                           node.nextSiblingId),
                       status |-> "ok"]
                 ELSE LET found == SiblingScan(sc, siblingId, h,
                                       Len(sc[h.sceneId.id + 1].nodes))
                      IN  IF found.status # "ok"
                          THEN [scenes |-> sc, status |-> found.status]
                          ELSE [scenes |-> SetField(sc, found.at, "nextSiblingId",
                                                    node.nextSiblingId),
                                status |-> "ok"]

RECURSIVE ReleaseSceneNodeResult(_, _)
RECURSIVE ReleaseChildren(_, _)

\* "release children": the while loop over the child list
ReleaseChildren(sc, childId) ==
    IF ~GetSceneNodeFound(sc, childId) THEN [scenes |-> sc, status |-> "ok"]
    ELSE LET nextChildId == NodeAt(sc, childId).nextSiblingId
             r == ReleaseSceneNodeResult(sc, childId)
         IN  IF r.status # "ok" THEN r ELSE ReleaseChildren(r.scenes, nextChildId)

ReleaseSceneNodeResult(sc, h) ==
    IF ~GetSceneNodeFound(sc, h) THEN [scenes |-> sc, status |-> "ok"]
    ELSE LET r1 == RemoveFromParent(sc, h)
         IN  IF r1.status # "ok" THEN r1
             ELSE LET sc2 == SetField(r1.scenes, h, "generation",
                                 ReleasedGeneration(NodeAt(r1.scenes, h).generation))
                      sc3 == SetField(SetField(sc2, h, "name", 0), h, "nameBlock",
                                      ClearedName(NodeAt(sc2, h).nameBlock))
                      r4 == ReleaseChildren(sc3,
                               sc3[h.sceneId.id + 1].nodes[h.id + 1].firstChildId)
                  IN  IF r4.status # "ok" THEN r4
                      ELSE LET s == h.sceneId.id + 1
                               sc5 == SetField(r4.scenes, h, "parent", ZeroNodeId)
                               sc6 == SetField(sc5, h, "nextSiblingId", sc5[s].firstFree)
                           IN  [scenes |-> [sc6 EXCEPT ![s].firstFree = h],
                                status |-> "ok"]

---------------------------------------------------------------------------
\* Transform cache.

\* The parent walk of GetSceneNodeGenerationSum from the handle parentId on.
\* The loop ends at the first handle that does not resolve; on a parent
\* chain that circles it never ends (fuel: one step per slot).
RECURSIVE GenerationSumWalk(_, _, _, _)
GenerationSumWalk(sc, parentId, sum, fuel) ==
    IF ~GetSceneNodeFound(sc, parentId) THEN [status |-> "ok", sum |-> sum]
    ELSE IF fuel = 0 THEN [status |-> "hung", sum |-> sum]
    ELSE GenerationSumWalk(sc, NodeAt(sc, parentId).parent,
                           sum + NodeAt(sc, parentId).modTRSGeneration, fuel - 1)

\* for a handle h that resolves
GetSceneNodeGenerationSum(sc, h) ==
    GenerationSumWalk(sc, NodeAt(sc, h).parent, NodeAt(sc, h).modTRSGeneration,
                      Len(sc[h.sceneId.id + 1].nodes))

\* node->modTRSMarker != generationSum, for a handle h that resolves and a
\* walk that ended
IsSceneNodeTRSDirty(sc, h) ==
    NodeAt(sc, h).modTRSMarker # GetSceneNodeGenerationSum(sc, h).sum

\* Scale, then rotate, then translate
LocalMatrix(node) ==
    MatrixMultiply(
        MatrixMultiply(
            MatrixMultiply(MatrixIdentity, MatrixScale(node.scale)),
            MatrixRotateXYZ(node.rotation)),
        MatrixTranslate(node.position))

\* the node's matrix, right-multiplied by its parent's world matrix
ComposeWithParent(local, parentWorld) == MatrixMultiply(local, parentWorld)

RECURSIVE UpdateSceneNodeTRS(_, _)
UpdateSceneNodeTRS(sc, h) ==
    IF ~GetSceneNodeFound(sc, h) THEN [scenes |-> sc, status |-> "ok"]
    ELSE IF GetSceneNodeGenerationSum(sc, h).status # "ok"
         THEN [scenes |-> sc, status |-> "hung"]
    ELSE IF ~IsSceneNodeTRSDirty(sc, h) THEN [scenes |-> sc, status |-> "ok"]
    ELSE LET parentId == NodeAt(sc, h).parent
             hasParent == GetSceneNodeFound(sc, parentId)
             sc1 == SetField(sc, h, "localToWorld", LocalMatrix(NodeAt(sc, h)))
             r == IF hasParent THEN UpdateSceneNodeTRS(sc1, parentId)
                  ELSE [scenes |-> sc1, status |-> "ok"]
         IN  IF r.status # "ok" THEN r
             ELSE LET sc2 == IF hasParent
                             THEN SetField(r.scenes, h, "localToWorld",
                                      ComposeWithParent(NodeAt(r.scenes, h).localToWorld,
                                                        NodeAt(r.scenes, parentId).localToWorld))
                             ELSE r.scenes
                  IN  [scenes |-> SetField(sc2, h, "modTRSMarker",
                                           GetSceneNodeGenerationSum(sc2, h).sum),
                       status |-> "ok"]

\* variant: the matrix as it was cached before the UpdateSceneNodeTRS call
LocalTransformBeforeUpdate(before, after, h) ==
    IF ~GetSceneNodeFound(after, h) THEN MatrixIdentity
    ELSE NodeAt(before, h).localToWorld

\* what GetSceneNodeLocalTransform returns, given the arena before and after
\* its UpdateSceneNodeTRS call
LocalTransformReturned(before, after, h) ==
    IF ~GetSceneNodeFound(after, h) THEN MatrixIdentity
    ELSE NodeAt(after, h).localToWorld

\* (Vector3){localToWorld.m12, ...}
WorldPositionOf(matrix) == matrix.m12

\* (Vector3){localToWorld.m8, localToWorld.m9, localToWorld.m10}
WorldForwardOf(matrix) == <<0, 0, matrix.m10>>

\* (Vector3){localToWorld.m4, localToWorld.m5, localToWorld.m6}
WorldUpOf(matrix) == <<0, matrix.m5, 0>>

\* (Vector3){localToWorld.m0, localToWorld.m1, localToWorld.m2}
WorldRightOf(matrix) == <<matrix.m0, 0, 0>>

\* GetSceneNodeLocalPosition: the x coordinate it returns
LocalPositionOf(sc, h) == IF ~GetSceneNodeFound(sc, h) THEN 0 ELSE NodeAt(sc, h).position

---------------------------------------------------------------------------
\* Node setters.

\* variant: a setter that checks that the slot exists, not its generation
SetTRSResultUnchecked(sc, h, f, v) ==
    IF ~(IsSceneValid(sc, h.sceneId) /\ h.id < Len(sc[h.sceneId.id + 1].nodes)) THEN sc
    ELSE LET sc1 == SetField(sc, h, f, v)
         IN  SetField(sc1, h, "modTRSGeneration", NodeAt(sc1, h).modTRSGeneration + 1)

\* SetSceneNodePosition / Rotation / Scale: the field, then modTRSGeneration += 1
SetTRSResult(sc, h, f, v) ==
    IF ~GetSceneNodeFound(sc, h) THEN sc
    ELSE LET sc1 == SetField(sc, h, f, v)
         IN  SetField(sc1, h, "modTRSGeneration", NodeAt(sc1, h).modTRSGeneration + 1)

\* SetSceneNodeName, SetSceneNodeIdentifier, SetSceneNodeModel
SetMetaResult(sc, h, f, v) ==
    IF ~GetSceneNodeFound(sc, h) THEN sc ELSE SetField(sc, h, f, v)

---------------------------------------------------------------------------
\* Model arena and drawing: AddModelToScene, DrawScene.

SceneModelIdOf(ownerSceneId, id, generation) ==
    [ownerSceneId |-> ownerSceneId, id |-> id, generation |-> generation]

\* a raylib Model: its meshCount, the vertexCount of each of its meshes and
\* their bounding box, a cube around the model origin; half2 is the half
\* extent of the cube counted in half units (2: from -1 to 1)
\* meshMaterial: per mesh, the index of its material (the two meshes of the
\* second model share one material)
ZeroAsset ==
    [id |-> 0, meshCount |-> 0, vertexCount |-> 0, half2 |-> 0, meshMaterial |-> <<>>]

Assets ==
    {[id |-> 1, meshCount |-> 1, vertexCount |-> 4, half2 |-> 2, meshMaterial |-> <<1>>],
     [id |-> 2, meshCount |-> 2, vertexCount |-> 6, half2 |-> 1, meshMaterial |-> <<1, 1>>]}

\* the diffuse colour of each material of each model when the program starts
MaterialsAtStart == [a \in {1, 2} |-> IF a = 1 THEN <<"red">> ELSE <<"blue", "green">>]

\* int stored in a char: the low eight bits, as a signed value
CharOf(n) == ((n + 128) % 256) - 128

\* the compound literal AddModelToScene stores in the slot (reg: the number
\* of the registration, carried along to tell the records apart)
AddedModel(oldGeneration, model, manageModel, reg) ==
    [generation |-> oldGeneration + 1, model |-> model,
     isManaged |-> CharOf(manageModel), reg |-> reg]

\* ListAlloc with count < capacity writes at list + count: through a null
\* pointer when UnloadScene freed the array of a scene that stayed valid
AddModelCrashes(sc, sceneId) ==
    /\ IsSceneValid(sc, sceneId)
    /\ sc[sceneId.id + 1].modelsCount > 0
    /\ sc[sceneId.id + 1].models = <<>>

AddModelToSceneResult(sc, sceneId, model, manageModel, reg) ==
    IF ~IsSceneValid(sc, sceneId) THEN [scenes |-> sc, ret |-> ZeroModelId]
    ELSE LET s == sceneId.id + 1
             zero == [generation |-> 0, model |-> ZeroAsset, isManaged |-> 0, reg |-> 0]
             models == ListAlloc(sc[s].models, zero)
             index == Len(models) - 1
             sceneModel == AddedModel(models[index + 1].generation, model, manageModel, reg)
         IN  [scenes |-> [sc EXCEPT ![s].models = [models EXCEPT ![index + 1] = sceneModel],
                                    ![s].modelsCount = sc[s].modelsCount + 1],
              ret |-> SceneModelIdOf(sceneId, index, sceneModel.generation)]

ZeroStats == [culledMeshCount |-> 0, meshDrawCount |-> 0, trianglesDrawCount |-> 0]

\* What DrawScene reads as models[id].generation and models[id].model: an
\* index past modelsCount reads the rest of the block MemAlloc handed out
\* zeroed (capacity 8).
ModelSlot(models, id) ==
    IF id < Len(models) THEN models[id + 1]
    ELSE [generation |-> 0, model |-> ZeroAsset, isManaged |-> 0, reg |-> 0]

\* the test DrawScene makes on a node slot: generation < 0 means skipped
DrawSkipsSlot(node) == node.generation < 0

\* Frustum culling.  Lengths are counted in half units, so that a box can be
\* smaller than the near distance; only the sign of a distance is used, so
\* plane normals are kept as integer vectors of any length.

\* near and far distance of the projection CalcFrustumCorners builds
FrustumNear == 1

FrustumFar == 30

\* The six planes of a camera at (camX, 0, 0) looking along +x, up +y, with
\* fovy 90 degrees on a square screen: near, far, right, left, top, bottom.
\* n is the normal (it points into the frustum), d = n . p for a point p of
\* the plane.
GetCameraFrustumPlanes(camX) ==
    << [n |-> <<1, 0, 0>>, d |-> camX + FrustumNear],
       [n |-> <<-1, 0, 0>>, d |-> -(camX + FrustumFar)],
       [n |-> <<1, 0, -1>>, d |-> camX],
       [n |-> <<1, 0, 1>>, d |-> camX],
       [n |-> <<1, -1, 0>>, d |-> camX],
       [n |-> <<1, 1, 0>>, d |-> camX] >>

\* the eight corners of the box in the order of CheckCollisionBoxFrustum
BoxCorners(half2) ==
    << <<-half2, -half2, -half2>>, <<half2, -half2, -half2>>,
       <<half2, half2, -half2>>, <<-half2, half2, -half2>>,
       <<-half2, -half2, half2>>, <<half2, -half2, half2>>,
       <<half2, half2, half2>>, <<-half2, half2, half2>> >>

Vector3Transform(v, matrix) ==
    <<matrix.m0 * v[1] + 2 * matrix.m12, matrix.m5 * v[2], matrix.m10 * v[3]>>

\* Vector3DotProduct(planeNormal, corner - planeCenter), up to a positive
\* factor
PlaneDistance(plane, corner) ==
    plane.n[1] * corner[1] + plane.n[2] * corner[2] + plane.n[3] * corner[3] - 2 * plane.d

\* sides[i][j]: corner j is on the negative side of plane i
CornerSides(half2, planes, matrix) ==
    [i \in 1..6 |->
        [j \in 1..8 |->
            PlaneDistance(planes[i], Vector3Transform(BoxCorners(half2)[j], matrix)) < 0]]

\* the corner loop for one plane: out after the loop, which ends at the
\* first corner that is not on the negative side
RECURSIVE CornerLoop(_, _, _)
CornerLoop(row, j, out) ==
    IF j > Len(row) THEN out
    ELSE IF row[j] THEN CornerLoop(row, j + 1, out + 1)
    ELSE out

\* variant: a plane loop that looks at the first plane only
PlaneLoopFirstOnly(sides, i) == IF CornerLoop(sides[1], 1, 0) = 8 THEN 0 ELSE 1

\* the plane loop: 0 as soon as a plane has out = 8, else 1
RECURSIVE PlaneLoop(_, _)
PlaneLoop(sides, i) ==
    IF i > Len(sides) THEN 1
    ELSE IF CornerLoop(sides[i], 1, 0) = 8 THEN 0
    ELSE PlaneLoop(sides, i + 1)

CheckCollisionBoxFrustum(half2, planes, matrix) ==
    PlaneLoop(CornerSides(half2, planes, matrix), 1)

\* What the cull test of DrawScene answers for the meshes of node i.  A
\* config either names a camera (camera = TRUE, at camX) or, for any other
\* camera, the node indices whose meshes that camera holds (view).
MeshInView(config, i, model, matrix) ==
    IF config.camera
    THEN CheckCollisionBoxFrustum(model.half2, GetCameraFrustumPlanes(config.camX), matrix) = 1
    ELSE i \in config.view

\* the mesh loop of DrawScene for one node whose meshes are all inside
\* (seen) or all outside the frustum
CountMeshes(stats, model, seen) ==
    IF seen
    THEN [stats EXCEPT !.meshDrawCount = @ + model.meshCount,
                       !.trianglesDrawCount = @ + model.meshCount * (model.vertexCount \div 3)]
    ELSE [stats EXCEPT !.culledMeshCount = @ + model.meshCount]

\* variant: a mesh loop that leaves the tint on the material
KeptTint(color) == "white"

\* the colour the mesh loop writes back after DrawMesh
RestoredColor(color) == color

\* The mesh loop of DrawScene for a node whose meshes passed the cull test,
\* from mesh i on: the material's diffuse colour is read, set to WHITE for
\* DrawMesh and written back.
RECURSIVE DrawMeshes(_, _, _)
DrawMeshes(mats, model, i) ==
    IF i > model.meshCount THEN mats
    ELSE LET m == model.meshMaterial[i]
             color == mats[model.id][m]
             tinted == [mats EXCEPT ![model.id][m] = "white"]
         IN  DrawMeshes([tinted EXCEPT ![model.id][m] = RestoredColor(color)], model, i + 1)

\* The node loop of DrawScene from slot i on.  acc carries the arena, the
\* statistics, the indices counted so far (drawn) and those among them whose
\* meshes passed the cull test (seen).
RECURSIVE DrawNodes(_, _, _, _)
DrawNodes(acc, sceneId, i, visible) ==
    LET sc == acc.scenes
        s == sceneId.id + 1
    IN  IF i >= Len(sc[s].nodes) THEN acc
        ELSE LET node == sc[s].nodes[i + 1]
             IN  IF DrawSkipsSlot(node) THEN DrawNodes(acc, sceneId, i + 1, visible)
                 ELSE IF sc[s].models = <<>> THEN [acc EXCEPT !.status = "crashed"]
                 ELSE IF ModelSlot(sc[s].models, node.model.id).generation
                         # node.model.generation
                      THEN DrawNodes(acc, sceneId, i + 1, visible)
                 ELSE LET h == SceneNodeIdOf(sceneId, i, node.generation)
                          r == UpdateSceneNodeTRS(sc, h)
                          model == ModelSlot(sc[s].models, node.model.id).model
                      IN  IF r.status # "ok" THEN [acc EXCEPT !.status = r.status]
                          ELSE LET inView == MeshInView(visible, i, model,
                                                LocalTransformReturned(sc, r.scenes, h))
                               IN  DrawNodes(
                                      [scenes |-> r.scenes,
                                       status |-> "ok",
                                       stats |-> CountMeshes(acc.stats, model, inView),
                                       materials |-> IF inView
                                                     THEN DrawMeshes(acc.materials, model, 1)
                                                     ELSE acc.materials,
                                       drawn |-> acc.drawn \cup {i},
                                       seen |-> IF inView THEN acc.seen \cup {i}
                                                ELSE acc.seen],
                                      sceneId, i + 1, visible)

\* variant: an entry test that checks the index alone
DrawRejectsOutOfRange(sc, sceneId) == ~(sceneId.id < Len(sc))

\* the entry test of DrawScene
DrawRejects(sc, sceneId) == ~IsSceneValid(sc, sceneId)

\* The bounding-box pass of DrawScene from slot i on: the node loop again,
\* with its transform queries, and one DrawBoundingBox per mesh of the model.
\* acc carries the arena and the number of boxes drawn so far.
RECURSIVE BoxNodes(_, _, _)
BoxNodes(acc, sceneId, i) ==
    LET sc == acc.scenes
        s == sceneId.id + 1
    IN  IF i >= Len(sc[s].nodes) THEN acc
        ELSE LET node == sc[s].nodes[i + 1]
             IN  IF DrawSkipsSlot(node) THEN BoxNodes(acc, sceneId, i + 1)
                 ELSE IF sc[s].models = <<>> THEN [acc EXCEPT !.status = "crashed"]
                 ELSE IF ModelSlot(sc[s].models, node.model.id).generation
                         # node.model.generation
                      THEN BoxNodes(acc, sceneId, i + 1)
                 ELSE LET r == UpdateSceneNodeTRS(sc, SceneNodeIdOf(sceneId, i, node.generation))
                      IN  IF r.status # "ok" THEN [acc EXCEPT !.status = r.status]
                          ELSE BoxNodes(
                                  [scenes |-> r.scenes, status |-> "ok",
                                   boxes |-> acc.boxes
                                       + ModelSlot(sc[s].models, node.model.id).model.meshCount],
                                  sceneId, i + 1)

\* DrawScene: the entry test, the node loop and, when config.drawBoundingBoxes
\* is set, the bounding-box pass.  mats: the material colours before the call.
DrawSceneWith(sc, sceneId, visible, mats) ==
    IF DrawRejects(sc, sceneId)
    THEN [scenes |-> sc, status |-> "ok", stats |-> ZeroStats, drawn |-> {}, seen |-> {},
          materials |-> mats, boxes |-> 0]
    ELSE LET first == DrawNodes([scenes |-> sc, status |-> "ok", stats |-> ZeroStats,
                                 drawn |-> {}, seen |-> {}, materials |-> mats],
                                sceneId, 0, visible)
             second == IF first.status = "ok" /\ visible.drawBoundingBoxes
                       THEN BoxNodes([scenes |-> first.scenes, status |-> "ok", boxes |-> 0],
                                     sceneId, 0)
                       ELSE [scenes |-> first.scenes, status |-> first.status, boxes |-> 0]
         IN  [scenes |-> second.scenes, status |-> second.status, stats |-> first.stats,
              drawn |-> first.drawn, seen |-> first.seen, materials |-> first.materials,
              boxes |-> second.boxes]

DrawSceneResult(sc, sceneId, visible) == DrawSceneWith(sc, sceneId, visible, materials)

---------------------------------------------------------------------------
\* The calls a program makes.  Every action is one call of the API, run to
\* completion; call records it.

\* (other: the parent SetSceneNodeParent was given, or the head of the child
\* list ReleaseSceneNode found the node's parent to have;
\* model: the handle AddModelToScene returned; stats: what DrawScene
\* returned; drawn: the node indices whose meshes DrawScene counted; view:
\* the node indices that were inside the frustum; camera, camX: the camera
\* DrawScene was given; sides: the corner sides CheckCollisionBoxFrustum was
\* given; drawBoundingBoxes: the toggle DrawScene was given; boxes: the number
\* of DrawBoundingBox calls it made)
NoCall ==
    [op |-> "none", scene |-> ZeroSceneId, node |-> ZeroNodeId, other |-> ZeroNodeId,
     val |-> 0, ret |-> ZeroNodeId, mat |-> MatrixIdentity, found |-> FALSE,
     model |-> ZeroModelId, stats |-> ZeroStats, drawn |-> {}, view |-> {},
     camera |-> FALSE, camX |-> 0, sides |-> <<>>, boxes |-> 0, drawBoundingBoxes |-> FALSE,
     block |-> 0]

\* handles no call ever returned: the zero handle, a node index past the end
\* of the node array, a scene generation never issued, a scene index past the
\* end of the scene array
JunkNodeIds ==
    {ZeroNodeId,
     SceneNodeIdOf(SceneIdOf(0, 1), MaxNodes, 1),
     SceneNodeIdOf(SceneIdOf(0, 0), 0, 1),
     SceneNodeIdOf(SceneIdOf(MaxScenes, 1), 0, 1)}

Coords == 0..MaxCoord

\* how a handle was used so far: "fresh" (neither parented nor queried),
\* "queried" (its transform was queried before any SetSceneNodeParent),
\* "once" (given a parent once, and not queried before that), "spoiled"
LineageAfterParent(l) == IF l = "fresh" THEN "once" ELSE "spoiled"

LineageAfterQuery(l) == IF l = "fresh" THEN "queried" ELSE l

\* The parent walk from the handle id on: does it pass the handle a?  It ends
\* at the first handle that does not resolve (fuel: one step per slot).
RECURSIVE ParentWalkPasses(_, _, _, _)
ParentWalkPasses(sc, id, a, fuel) ==
    IF ~GetSceneNodeFound(sc, id) THEN FALSE
    ELSE IF id = a THEN TRUE
    ELSE IF fuel = 0 THEN FALSE
    ELSE ParentWalkPasses(sc, NodeAt(sc, id).parent, a, fuel - 1)

\* a is a proper ancestor of the live node h
IsAncestor(sc, a, h) ==
    /\ GetSceneNodeFound(sc, h)
    /\ a # h
    /\ ParentWalkPasses(sc, NodeAt(sc, h).parent, a, Len(sc[h.sceneId.id + 1].nodes))

\* h is root or a node below it
InSubtree(sc, root, h) ==
    /\ GetSceneNodeFound(sc, h)
    /\ ParentWalkPasses(sc, h, root, Len(sc[h.sceneId.id + 1].nodes))

\* watch.stage: "none"; "queried" (the last call queried the transform of
\* watch.node); "moved" (a query of watch.node, then SetSceneNodePosition on
\* one of its ancestors); "requeried" (those two, then a query of watch.node)
\* watch.again: the call before the last was the same query of the same node
\* Draw stages: "shown" (the last call, a DrawScene with a camera, drew the
\* meshes of watch.node); "shownMoved" (that, then SetSceneNodePosition on
\* watch.node); "hidden" (those two, then a DrawScene that culled them);
\* "hiddenMoved" (those three, then SetSceneNodePosition on watch.node);
\* "reshown" (those four, then a DrawScene that drew them)
NoWatch == [node |-> ZeroNodeId, stage |-> "none", again |-> FALSE]

WatchAfterQuery(sc, w, last, op, h) ==
    IF ~GetSceneNodeFound(sc, h) THEN NoWatch
    ELSE [node |-> h,
          stage |-> IF w.stage = "moved" /\ w.node = h THEN "requeried" ELSE "queried",
          again |-> w.stage \in {"queried", "requeried"} /\ w.node = h /\ last.op = op]

WatchAfterSet(sc, w, a) ==
    IF w.stage \in {"queried", "requeried"} /\ GetSceneNodeFound(sc, a)
       /\ IsAncestor(sc, a, w.node)
    THEN [node |-> w.node, stage |-> "moved", again |-> FALSE]
    ELSE IF w.stage \in {"shown", "reshown"} /\ GetSceneNodeFound(sc, a) /\ a = w.node
    THEN [node |-> w.node, stage |-> "shownMoved", again |-> FALSE]
    ELSE IF w.stage = "hidden" /\ GetSceneNodeFound(sc, a) /\ a = w.node
    THEN [node |-> w.node, stage |-> "hiddenMoved", again |-> FALSE]
    ELSE NoWatch

\* r: what DrawSceneResult returned for sceneId under config
WatchAfterDraw(w, r, sceneId, config) ==
    IF r.status # "ok" \/ ~config.camera THEN NoWatch
    ELSE IF w.stage \in {"shownMoved", "hiddenMoved"} /\ w.node.sceneId = sceneId
            /\ w.node.id \in r.drawn
    THEN [node |-> w.node,
          stage |-> IF w.node.id \notin r.seen THEN "hidden"
                    ELSE IF w.stage = "hiddenMoved" THEN "reshown" ELSE "shown",
          again |-> FALSE]
    ELSE IF r.seen # {}
    THEN LET i == CHOOSE j \in r.seen : \A k \in r.seen : j <= k
         IN  [node |-> SceneNodeIdOf(sceneId, i, r.scenes[sceneId.id + 1].nodes[i + 1].generation),
              stage |-> "shown", again |-> FALSE]
    ELSE NoWatch

\* The blocks MemAlloc handed out for the slot `scene` of the arena: kind is
\* "nodes", "models", "bounds", "spheres" or "name"; index is the model record
\* or node slot the block belongs to (0 for the two arrays); serial counts
\* the blocks of one kind, scene slot and index in the order of allocation.
BlocksOf(hp, kind, scene, index) ==
    {b \in hp : b.kind = kind /\ b.scene = scene /\ b.index = index}

BlockKey(kind, scene, index, serial) ==
    [kind |-> kind, scene |-> scene, index |-> index, serial |-> serial]

KeyOf(b) == BlockKey(b.kind, b.scene, b.index, b.serial)

\* the serial of the block allocated last for the kind, scene slot and index
LastSerial(hp, kind, scene, index) == Cardinality(BlocksOf(hp, kind, scene, index))

MemAlloc(hp, kind, scene, index) ==
    hp \cup {[kind |-> kind, scene |-> scene, index |-> index,
              serial |-> LastSerial(hp, kind, scene, index) + 1, frees |-> 0]}

\* MemFree on each of the blocks keys (a null pointer is no key)
MemFree(hp, keys) ==
    {IF KeyOf(b) \in keys THEN [b EXCEPT !.frees = @ + 1] ELSE b : b \in hp}

\* the name copies the node slots of a scene point to, of the slots in `slots`
NameKeys(sc, scene, slots) ==
    {BlockKey("name", scene, i - 1, sc[scene + 1].nodes[i].nameBlock) :
        i \in {j \in slots : sc[scene + 1].nodes[j].nameBlock # 0}}

\* the blocks UnloadScene passes to MemFree: the bounds and spheres of every
\* record, the model array, the names of the node slots with generation >= 0
UnloadSceneFrees(sc, hp, sceneId) ==
    LET s == sceneId.id
        scene == sc[s + 1]
    IN  UNION {{BlockKey("bounds", s, i - 1, LastSerial(hp, "bounds", s, i - 1)),
                BlockKey("spheres", s, i - 1, LastSerial(hp, "spheres", s, i - 1))} :
                   i \in 1..Len(scene.models)}
        \cup (IF scene.models # <<>>
              THEN {BlockKey("models", s, 0, LastSerial(hp, "models", s, 0))} ELSE {})
        \cup NameKeys(sc, s, {j \in 1..Len(scene.nodes) : ~(scene.nodes[j].generation < 0)})

\* the names ReleaseSceneNode passed to MemFree: those the slots released in
\* the call (their generation stepped) pointed to
ReleaseSceneNodeFrees(before, after) ==
    UNION {NameKeys(before, s - 1,
                    {j \in 1..Len(before[s].nodes) :
                        before[s].nodes[j].generation # after[s].nodes[j].generation}) :
           s \in 1..Len(before)}

LoadScene ==
    /\ status = "ok"
    /\ watch' = NoWatch
    /\ \E garbage \in UninitGenerations :
        LET r == LoadSceneResult(scenes, garbage)
        IN  /\ Len(r.scenes) <= MaxScenes
            /\ scenes' = r.scenes
            /\ sceneIds' = sceneIds \cup {r.ret}
            /\ loaded' = loaded \cup {r.ret.id}
            /\ call' = [NoCall EXCEPT !.op = "LoadScene", !.scene = r.ret]
    /\ UNCHANGED <<status, issued, released, unloaded, lineage, registered, materials, heap>>

UnloadScene(sceneId) ==
    /\ status = "ok"
    /\ watch' = NoWatch
    /\ status' = IF UnloadSceneCrashes(scenes, sceneId) THEN "crashed" ELSE "ok"
    /\ scenes' = IF UnloadSceneCrashes(scenes, sceneId) THEN scenes
                 ELSE UnloadSceneResult(scenes, sceneId)
    /\ registered' = IF UnloadSceneCrashes(scenes, sceneId) THEN registered
                     ELSE [r \in 1..Len(registered) |->
                             IF r \in UnloadedModels(scenes, sceneId)
                             THEN [registered[r] EXCEPT !.unloads = @ + 1]
                             ELSE registered[r]]
    /\ unloaded' = IF IsSceneValid(scenes, sceneId) THEN unloaded \cup {sceneId}
                   ELSE unloaded
    /\ loaded' = IF IsSceneValid(scenes, sceneId) THEN loaded \ {sceneId.id} ELSE loaded
    /\ heap' = IF IsSceneValid(scenes, sceneId) /\ ~UnloadSceneCrashes(scenes, sceneId)
               THEN MemFree(heap, UnloadSceneFrees(scenes, heap, sceneId)) ELSE heap
    /\ call' = [NoCall EXCEPT !.op = "UnloadScene", !.scene = sceneId,
                              !.found = IsSceneValid(scenes, sceneId)]
    /\ UNCHANGED <<issued, released, sceneIds, lineage, materials>>

\* model is one of Assets, manageModel an int
AddModelToScene(sceneId, model, manageModel) ==
    /\ status = "ok"
    /\ watch' = NoWatch
    /\ Len(registered) < MaxModels
    /\ status' = IF AddModelCrashes(scenes, sceneId) THEN "crashed" ELSE "ok"
    /\ LET r == IF AddModelCrashes(scenes, sceneId)
                THEN [scenes |-> scenes, ret |-> ZeroModelId]
                ELSE AddModelToSceneResult(scenes, sceneId, model, manageModel,
                                           Len(registered) + 1)
       IN  /\ scenes' = r.scenes
           /\ registered' = IF r.ret = ZeroModelId THEN registered
                            ELSE Append(registered,
                                        [handle |-> r.ret, manageModel |-> manageModel,
                                         unloads |-> 0])
           /\ call' = [NoCall EXCEPT !.op = "AddModelToScene", !.scene = sceneId,
                                     !.val = manageModel, !.model = r.ret,
                                     !.found = IsSceneValid(scenes, sceneId)]
           /\ heap' = IF r.ret = ZeroModelId THEN heap
                      ELSE LET s == sceneId.id
                               hp1 == IF scenes[s + 1].models = <<>>
                                      THEN MemAlloc(heap, "models", s, 0) ELSE heap
                           IN  MemAlloc(MemAlloc(hp1, "bounds", s, r.ret.id),
                                        "spheres", s, r.ret.id)
    /\ UNCHANGED <<issued, released, sceneIds, unloaded, lineage, loaded, materials>>

\* visible: the camera of the config, see MeshInView
DrawScene(sceneId, visible) ==
    /\ status = "ok"
    /\ \E r \in {DrawSceneResult(scenes, sceneId, visible)} :
           /\ status' = r.status
           /\ watch' = WatchAfterDraw(watch, r, sceneId, visible)
           /\ scenes' = IF r.status = "ok" THEN r.scenes ELSE scenes
           /\ call' = [NoCall EXCEPT !.op = "DrawScene", !.scene = sceneId,
                                     !.view = IF visible.camera
                                              THEN (IF r.status = "ok" THEN r.seen ELSE {})
                                              ELSE visible.view,
                                     !.camX = visible.camX, !.camera = visible.camera,
                                     !.found = IsSceneValid(scenes, sceneId),
                                     !.stats = IF r.status = "ok" THEN r.stats ELSE ZeroStats,
                                     !.drawn = IF r.status = "ok" THEN r.drawn ELSE {},
                                     !.drawBoundingBoxes = visible.drawBoundingBoxes,
                                     !.boxes = IF r.status = "ok" THEN r.boxes ELSE 0]
           /\ materials' = IF r.status = "ok" THEN r.materials ELSE materials
    /\ UNCHANGED <<issued, released, sceneIds, unloaded, lineage, registered, loaded, heap>>

\* cap: the bound on the node slots of a scene in the run
AcquireSceneNodeWithin(sceneId, cap) ==
    /\ status = "ok"
    /\ watch' = NoWatch
    /\ LET r == AcquireSceneNodeResult(scenes, sceneId)
       IN  /\ \A i \in 1..Len(r.scenes) : Len(r.scenes[i].nodes) <= cap
           /\ scenes' = r.scenes
           /\ issued' = IF r.ret = ZeroNodeId THEN issued ELSE issued \cup {r.ret}
           /\ lineage' = IF r.ret = ZeroNodeId THEN lineage
                         ELSE [h \in issued \cup {r.ret} |->
                                  IF h = r.ret THEN "fresh" ELSE lineage[h]]
           /\ call' = [NoCall EXCEPT !.op = "AcquireSceneNode", !.scene = sceneId,
                                     !.ret = r.ret]
           /\ heap' = IF r.ret # ZeroNodeId /\ Len(scenes[sceneId.id + 1].nodes) = 0
                         /\ Len(r.scenes[sceneId.id + 1].nodes) = 1
                      THEN MemAlloc(heap, "nodes", sceneId.id, 0) ELSE heap
    /\ UNCHANGED <<status, released, sceneIds, unloaded, registered, loaded, materials>>

AcquireSceneNode(sceneId) == AcquireSceneNodeWithin(sceneId, MaxNodes)

ReleaseSceneNode(h) ==
    /\ status = "ok"
    /\ watch' = NoWatch
    /\ \E r \in {ReleaseSceneNodeResult(scenes, h)} :
           /\ status' = r.status
           /\ scenes' = IF r.status = "ok" THEN r.scenes ELSE scenes
           /\ released' = IF r.status = "ok" /\ IsSceneNodeValid(scenes, h)
                          THEN released \cup {h} ELSE released
           /\ heap' = IF r.status = "ok"
                      THEN MemFree(heap, ReleaseSceneNodeFrees(scenes, r.scenes)) ELSE heap
    /\ call' = [NoCall EXCEPT !.op = "ReleaseSceneNode", !.node = h,
                              !.found = IsSceneNodeValid(scenes, h),
                              !.other = IF IsSceneNodeValid(scenes, h)
                                           /\ GetSceneNodeFound(scenes, NodeAt(scenes, h).parent)
                                        THEN NodeAt(scenes, NodeAt(scenes, h).parent).firstChildId
                                        ELSE ZeroNodeId]
    /\ UNCHANGED <<issued, sceneIds, unloaded, lineage, registered, loaded, materials>>

SetSceneNodeParent(h, p) ==
    /\ status = "ok"
    /\ watch' = NoWatch
    /\ scenes' = SetSceneNodeParentResult(scenes, h, p)
    /\ lineage' = IF IsSceneNodeValid(scenes, h) /\ IsSceneNodeValid(scenes, p)
                     /\ SameSceneIndex(h, p) /\ h \in issued
                  THEN [lineage EXCEPT ![h] = LineageAfterParent(lineage[h])]
                  ELSE lineage
    /\ call' = [NoCall EXCEPT !.op = "SetSceneNodeParent", !.node = h, !.other = p,
                              !.found = IsSceneNodeValid(scenes, h)
                                        /\ IsSceneNodeValid(scenes, p)]
    /\ UNCHANGED <<status, issued, released, sceneIds, unloaded, registered, loaded, materials, heap>>

CallIsSceneNodeValid(h) ==
    /\ status = "ok"
    /\ watch' = NoWatch
    /\ call' = [NoCall EXCEPT !.op = "IsSceneNodeValid", !.node = h,
                              !.found = IsSceneNodeValid(scenes, h)]
    /\ UNCHANGED <<scenes, status, issued, released, sceneIds, unloaded, lineage, registered, loaded, materials, heap>>

\* the three setters of position, rotation and scale
\* cap: the bound on modTRSGeneration of the run
SetTRSWithin(op, f, h, v, cap) ==
    /\ status = "ok"
    /\ watch' = IF f = "position" THEN WatchAfterSet(scenes, watch, h) ELSE NoWatch
    /\ IsSceneNodeValid(scenes, h) => NodeAt(scenes, h).modTRSGeneration < cap
    /\ scenes' = SetTRSResult(scenes, h, f, v)
    /\ call' = [NoCall EXCEPT !.op = op, !.node = h, !.val = v,
                              !.found = IsSceneNodeValid(scenes, h)]
    /\ UNCHANGED <<status, issued, released, sceneIds, unloaded, lineage, registered, loaded, materials, heap>>

SetTRS(op, f, h, v) == SetTRSWithin(op, f, h, v, MaxModGen)

SetSceneNodePosition(h, x) == SetTRS("SetSceneNodePosition", "position", h, x)

SetSceneNodeRotation(h, deg) == SetTRS("SetSceneNodeRotation", "rotation", h, deg)

SetSceneNodeScale(h, s) == SetTRS("SetSceneNodeScale", "scale", h, s)

SetSceneNodePositionV(h, x) == SetTRS("SetSceneNodePositionV", "position", h, x)

SetSceneNodeRotationV(h, deg) == SetTRS("SetSceneNodeRotationV", "rotation", h, deg)

SetSceneNodeScaleV(h, s) == SetTRS("SetSceneNodeScaleV", "scale", h, s)

\* the setters of name, identifier and model
SetMeta(op, f, h, v) ==
    /\ status = "ok"
    /\ watch' = NoWatch
    /\ scenes' = SetMetaResult(scenes, h, f, v)
    /\ call' = [NoCall EXCEPT !.op = op, !.node = h,
                              !.found = IsSceneNodeValid(scenes, h)]
    /\ UNCHANGED <<status, issued, released, sceneIds, unloaded, lineage, registered, loaded, materials, heap>>

\* name = 0 is the null pointer, of which StringDup makes no copy
SetSceneNodeName(h, name) ==
    /\ status = "ok"
    /\ watch' = NoWatch
    /\ IF ~GetSceneNodeFound(scenes, h)
       THEN UNCHANGED <<scenes, heap>>
       ELSE LET s == h.sceneId.id
                hp1 == MemFree(heap, NameKeys(scenes, s, {h.id + 1}))
                dup == IF name = 0 THEN 0 ELSE LastSerial(hp1, "name", s, h.id) + 1
            IN  /\ heap' = IF name = 0 THEN hp1 ELSE MemAlloc(hp1, "name", s, h.id)
                /\ scenes' = SetField(SetMetaResult(scenes, h, "name", name),
                                      h, "nameBlock", dup)
    /\ call' = [NoCall EXCEPT !.op = "SetSceneNodeName", !.node = h,
                              !.found = IsSceneNodeValid(scenes, h)]
    /\ UNCHANGED <<status, issued, released, sceneIds, unloaded, lineage, registered, loaded, materials>>

\* returns node->name: the text (val) and the copy it is stored in (block)
GetSceneNodeName(h) ==
    /\ status = "ok"
    /\ watch' = NoWatch
    /\ call' = [NoCall EXCEPT !.op = "GetSceneNodeName", !.node = h,
                              !.found = IsSceneNodeValid(scenes, h),
                              !.val = IF GetSceneNodeFound(scenes, h)
                                      THEN NodeAt(scenes, h).name ELSE 0,
                              !.block = IF GetSceneNodeFound(scenes, h)
                                        THEN NodeAt(scenes, h).nameBlock ELSE 0]
    /\ UNCHANGED <<scenes, status, issued, released, sceneIds, unloaded, lineage, registered, loaded, materials, heap>>

SetSceneNodeIdentifier(h, identifier) ==
    SetMeta("SetSceneNodeIdentifier", "userIdentifier", h, identifier)

SetSceneNodeModel(h, model) == SetMeta("SetSceneNodeModel", "model", h, model)

\* GetSceneNodeLocalTransform and the world-space queries built on it
TransformQuery(op, h) ==
    /\ status = "ok"
    /\ \E r \in {UpdateSceneNodeTRS(scenes, h)} :
           /\ status' = r.status
           /\ scenes' = IF r.status = "ok" THEN r.scenes ELSE scenes
           /\ call' = [NoCall EXCEPT
                          !.op = op, !.node = h,
                          !.found = IsSceneNodeValid(scenes, h),
                          !.mat = IF r.status = "ok"
                                  THEN LocalTransformReturned(scenes, r.scenes, h)
                                  ELSE MatrixIdentity]
           /\ lineage' = IF r.status = "ok" /\ IsSceneNodeValid(scenes, h)
                            /\ h \in issued
                         THEN [lineage EXCEPT ![h] = LineageAfterQuery(lineage[h])]
                         ELSE lineage
           /\ watch' = IF r.status = "ok" THEN WatchAfterQuery(scenes, watch, call, op, h)
                       ELSE NoWatch
    /\ UNCHANGED <<issued, released, sceneIds, unloaded, registered, loaded, materials, heap>>

GetSceneNodeLocalTransform(h) == TransformQuery("GetSceneNodeLocalTransform", h)

GetSceneNodeWorldPosition(h) == TransformQuery("GetSceneNodeWorldPosition", h)

GetSceneNodeWorldForward(h) == TransformQuery("GetSceneNodeWorldForward", h)

GetSceneNodeWorldUp(h) == TransformQuery("GetSceneNodeWorldUp", h)

GetSceneNodeWorldRight(h) == TransformQuery("GetSceneNodeWorldRight", h)

\* call.val is the x coordinate returned
GetSceneNodeLocalPosition(h) ==
    /\ status = "ok"
    /\ watch' = NoWatch
    /\ call' = [NoCall EXCEPT !.op = "GetSceneNodeLocalPosition", !.node = h,
                              !.val = LocalPositionOf(scenes, h),
                              !.found = IsSceneNodeValid(scenes, h)]
    /\ UNCHANGED <<scenes, status, issued, released, sceneIds, unloaded, lineage, registered, loaded, materials, heap>>

---------------------------------------------------------------------------
\* Specifications.

\* no scene was ever loaded: scenes = 0, scenesCount = 0
Init ==
    /\ scenes = <<>>
    /\ status = "ok"
    /\ call = NoCall
    /\ issued = {}
    /\ released = {}
    /\ sceneIds = {}
    /\ unloaded = {}
    /\ lineage = << >>
    /\ calls = 0
    /\ watch = NoWatch
    /\ registered = <<>>
    /\ loaded = {}
    /\ materials = MaterialsAtStart
    /\ heap = {}

\* the state after the program's first LoadScene()
InitLoaded ==
    /\ scenes = LoadSceneResult(<<>>, 0).scenes
    /\ status = "ok"
    /\ call = [NoCall EXCEPT !.op = "LoadScene", !.scene = LoadSceneResult(<<>>, 0).ret]
    /\ issued = {}
    /\ released = {}
    /\ sceneIds = {LoadSceneResult(<<>>, 0).ret}
    /\ unloaded = {}
    /\ lineage = << >>
    /\ calls = 0
    /\ watch = NoWatch
    /\ registered = <<>>
    /\ loaded = {LoadSceneResult(<<>>, 0).ret.id}
    /\ materials = MaterialsAtStart
    /\ heap = {}

\* one more call, while the run is within its budget
Counted(budget) == calls < budget /\ calls' = calls + 1

\* scene lifecycle with node acquisition and release
NextArena ==
    \/ Counted(MaxCalls) /\ LoadScene
    \/ Counted(MaxCalls) /\ \E s \in sceneIds \cup {ZeroSceneId} : UnloadScene(s)
    \/ Counted(MaxCalls) /\ \E s \in sceneIds : AcquireSceneNode(s)
    \/ Counted(MaxCalls) /\ \E h \in issued : ReleaseSceneNode(h)
    \/ Counted(MaxCalls) /\ \E h \in issued : CallIsSceneNodeValid(h)

SpecArena == Init /\ [][NextArena]_vars

\* the hierarchy of one loaded scene
NextHier ==
    \/ Counted(MaxCalls) /\ \E s \in sceneIds : AcquireSceneNode(s)
    \/ Counted(MaxCalls) /\ \E h \in issued \cup {ZeroNodeId} : ReleaseSceneNode(h)
    \/ Counted(MaxCalls) /\ \E h, p \in issued : SetSceneNodeParent(h, p)

SpecHier == InitLoaded /\ [][NextHier]_vars

\* a caller that never makes a node its own parent or the parent of one of
\* its ancestors
NoCycle(h, p) == h # p /\ ~IsAncestor(scenes, h, p)

\* the hierarchy of one loaded scene, built by a caller that keeps it a forest
NextTree ==
    \/ Counted(MaxCalls) /\ \E s \in sceneIds : AcquireSceneNode(s)
    \/ Counted(MaxCalls) /\ \E h \in issued : ReleaseSceneNode(h)
    \/ Counted(MaxCalls) /\ \E h, p \in issued : NoCycle(h, p) /\ SetSceneNodeParent(h, p)

SpecTree == InitLoaded /\ [][NextTree]_vars

\* several scenes, their nodes, and parent links asked for within and across
\* scenes
NextScenes ==
    \/ Counted(MaxQueryCalls) /\ LoadScene
    \/ Counted(MaxQueryCalls) /\ \E s \in sceneIds : UnloadScene(s)
    \/ Counted(MaxQueryCalls) /\ \E s \in sceneIds : AcquireSceneNode(s)
    \/ Counted(MaxQueryCalls) /\ \E h \in issued : ReleaseSceneNode(h)
    \/ Counted(MaxQueryCalls) /\ \E h, p \in issued : SetSceneNodeParent(h, p)

SpecScenes == Init /\ [][NextScenes]_vars

\* the transform cache over the hierarchy of one loaded scene
NextTRS ==
    \/ Counted(MaxQueryCalls) /\ \E s \in sceneIds : AcquireSceneNode(s)
    \/ Counted(MaxQueryCalls) /\ \E h \in issued : ReleaseSceneNode(h)
    \/ Counted(MaxQueryCalls) /\ \E h, p \in issued : SetSceneNodeParent(h, p)
    \/ Counted(MaxQueryCalls) /\ \E h \in issued, x \in Coords : SetSceneNodePosition(h, x)
    \/ Counted(MaxQueryCalls) /\ \E h \in issued : GetSceneNodeLocalTransform(h)
    \/ Counted(MaxQueryCalls) /\ \E h \in issued : GetSceneNodeWorldPosition(h)

SpecTRS == InitLoaded /\ [][NextTRS]_vars

\* every node mutator and the validity query, also on handles that do not
\* resolve
Rotations == {0, 180}

Scales == {1, 2}

Names == {0, 1}

Identifiers == {0, 7}

Models == {ZeroModelId, [ownerSceneId |-> SceneIdOf(0, 1), id |-> 0, generation |-> 1]}

NodeInputs == issued \cup JunkNodeIds

NextHandles ==
    \/ Counted(MaxProbeCalls) /\ \E s \in sceneIds : AcquireSceneNode(s)
    \/ Counted(MaxProbeCalls) /\ \E h \in NodeInputs : ReleaseSceneNode(h)
    \/ Counted(MaxProbeCalls) /\ \E h, p \in NodeInputs : SetSceneNodeParent(h, p)
    \/ Counted(MaxProbeCalls) /\ \E h \in NodeInputs : CallIsSceneNodeValid(h)
    \/ Counted(MaxProbeCalls) /\ \E h \in NodeInputs, x \in Coords : SetSceneNodePosition(h, x)
    \/ Counted(MaxProbeCalls) /\ \E h \in NodeInputs, d \in Rotations : SetSceneNodeRotation(h, d)
    \/ Counted(MaxProbeCalls) /\ \E h \in NodeInputs, s \in Scales : SetSceneNodeScale(h, s)
    \/ Counted(MaxProbeCalls) /\ \E h \in NodeInputs, x \in Coords : SetSceneNodePositionV(h, x)
    \/ Counted(MaxProbeCalls) /\ \E h \in NodeInputs, d \in Rotations : SetSceneNodeRotationV(h, d)
    \/ Counted(MaxProbeCalls) /\ \E h \in NodeInputs, s \in Scales : SetSceneNodeScaleV(h, s)
    \/ Counted(MaxProbeCalls) /\ \E h \in NodeInputs, n \in Names : SetSceneNodeName(h, n)
    \/ Counted(MaxProbeCalls) /\ \E h \in NodeInputs, i \in Identifiers : SetSceneNodeIdentifier(h, i)
    \/ Counted(MaxProbeCalls) /\ \E h \in NodeInputs, m \in Models : SetSceneNodeModel(h, m)

SpecHandles == InitLoaded /\ [][NextHandles]_vars

\* the position and direction queries, also on handles that do not resolve
NextQueries ==
    \/ Counted(MaxProbeCalls) /\ \E s \in sceneIds : AcquireSceneNode(s)
    \/ Counted(MaxProbeCalls) /\ \E h \in NodeInputs : ReleaseSceneNode(h)
    \/ Counted(MaxProbeCalls) /\ \E h \in NodeInputs, x \in Coords : SetSceneNodePosition(h, x)
    \/ Counted(MaxProbeCalls) /\ \E h \in NodeInputs, d \in Rotations : SetSceneNodeRotation(h, d)
    \/ Counted(MaxProbeCalls) /\ \E h \in NodeInputs : GetSceneNodeWorldPosition(h)
    \/ Counted(MaxProbeCalls) /\ \E h \in NodeInputs : GetSceneNodeWorldForward(h)
    \/ Counted(MaxProbeCalls) /\ \E h \in NodeInputs : GetSceneNodeWorldUp(h)
    \/ Counted(MaxProbeCalls) /\ \E h \in NodeInputs : GetSceneNodeWorldRight(h)
    \/ Counted(MaxProbeCalls) /\ \E h \in NodeInputs : GetSceneNodeLocalPosition(h)

SpecQueries == InitLoaded /\ [][NextQueries]_vars

\* a caller that gives a node a parent once, and never one of the node's own
\* descendants
\* the values a program passes as manageModel (an int used as a flag)
ManageFlags == {0, 1, 256}

\* the model handles a program holds, and the unset handle
ModelInputs == {registered[r].handle : r \in 1..Len(registered)} \cup {ZeroModelId}

\* scene handles a program holds, and one that was never issued
SceneInputs == sceneIds \cup {SceneIdOf(MaxScenes, 1)}

\* frustum outcomes of some camera: no node in view, the first node only,
\* every node
Views ==
    {[camera |-> FALSE, camX |-> 0, view |-> v, drawBoundingBoxes |-> FALSE] :
        v \in {{}, {0}, 0..MaxNodes}}

\* cameras on the x axis looking along +x
CameraViews ==
    {[camera |-> TRUE, camX |-> x, view |-> {}, drawBoundingBoxes |-> b] :
        x \in {0, 3}, b \in BOOLEAN}

NextModels ==
    \/ Counted(MaxDrawCalls) /\ LoadScene
    \/ Counted(MaxDrawCalls) /\ \E s \in sceneIds : UnloadScene(s)
    \/ Counted(MaxDrawCalls) /\ \E s \in sceneIds, model \in Assets, m \in ManageFlags :
                                   AddModelToScene(s, model, m)
    \/ Counted(MaxDrawCalls) /\ \E s \in sceneIds : AcquireSceneNode(s)
    \/ Counted(MaxDrawCalls) /\ \E h \in issued : ReleaseSceneNode(h)
    \/ Counted(MaxDrawCalls) /\ \E h \in issued, m \in ModelInputs : SetSceneNodeModel(h, m)
    \/ Counted(MaxDrawCalls) /\ \E s \in SceneInputs, v \in Views : DrawScene(s, v)

SpecModels == Init /\ [][NextModels]_vars

\* scenes loaded and unloaded around models, nodes and draws: the runs in
\* which a scene handle goes stale while its slot still holds nodes
NextUnloads ==
    \/ Counted(MaxDrawCalls) /\ LoadScene
    \/ Counted(MaxDrawCalls) /\ \E s \in sceneIds : UnloadScene(s)
    \/ Counted(MaxDrawCalls) /\ \E s \in sceneIds, model \in Assets : AddModelToScene(s, model, 1)
    \/ Counted(MaxDrawCalls) /\ \E s \in sceneIds : AcquireSceneNode(s)
    \/ Counted(MaxDrawCalls) /\ \E h \in issued, m \in ModelInputs : SetSceneNodeModel(h, m)
    \/ Counted(MaxDrawCalls) /\ \E s \in SceneInputs, v \in Views : DrawScene(s, v)

SpecUnloads == Init /\ [][NextUnloads]_vars

\* Corner sides of one plane: all eight negative, none, the first only, all
\* but the first, all but the last, all but the fourth.
SideRows ==
    {[j \in 1..8 |-> TRUE], [j \in 1..8 |-> FALSE], [j \in 1..8 |-> j = 1],
     [j \in 1..8 |-> j # 1], [j \in 1..8 |-> j # 8], [j \in 1..8 |-> j # 4]}

\* the program holds a box, six planes and a transform whose corner sides
\* are any six of SideRows
InitSides ==
    /\ scenes = <<>>
    /\ status = "ok"
    /\ issued = {}
    /\ released = {}
    /\ sceneIds = {}
    /\ unloaded = {}
    /\ lineage = << >>
    /\ calls = 0
    /\ watch = NoWatch
    /\ registered = <<>>
    /\ loaded = {}
    /\ materials = MaterialsAtStart
    /\ heap = {}
    /\ \E sides \in [1..6 -> SideRows] : call = [NoCall EXCEPT !.op = "input", !.sides = sides]

\* CheckCollisionBoxFrustum on the corner sides the program holds
CallCheckCollisionBoxFrustum ==
    /\ status = "ok"
    /\ call.op = "input"
    /\ call' = [call EXCEPT !.op = "CheckCollisionBoxFrustum",
                            !.val = PlaneLoop(call.sides, 1)]
    /\ UNCHANGED <<scenes, status, issued, released, sceneIds, unloaded, lineage, watch,
                   registered, loaded, materials, heap>>

NextSides == Counted(MaxProbeCalls) /\ CallCheckCollisionBoxFrustum

SpecSides == InitSides /\ [][NextSides]_vars

\* positions on the camera axis: behind the camera, at it, in front of it
CullCoords == {-4, 0, 3}

\* one scene, drawn by a camera while nodes with models are moved
NextCull ==
    \/ Counted(MaxCullCalls) /\ \E s \in sceneIds, model \in Assets : AddModelToScene(s, model, 1)
    \/ Counted(MaxCullCalls) /\ \E s \in sceneIds : AcquireSceneNode(s)
    \/ Counted(MaxCullCalls) /\ \E h \in issued, m \in ModelInputs : SetSceneNodeModel(h, m)
    \/ Counted(MaxCullCalls) /\ \E h \in issued, x \in CullCoords :
                                   SetTRSWithin("SetSceneNodePosition", "position", h, x,
                                                MaxCullModGen)
    \/ Counted(MaxCullCalls) /\ \E h, p \in issued : NoCycle(h, p) /\ SetSceneNodeParent(h, p)
    \/ Counted(MaxCullCalls) /\ \E s \in sceneIds, c \in CameraViews : DrawScene(s, c)

SpecCull == InitLoaded /\ [][NextCull]_vars

\* A well-behaved caller of the same calls: it acquires its nodes first,
\* registers one model, gives it to one node, gives a node a parent once,
\* moves a node at most MaxModGen - 1 times and draws with one camera.
NextCullDeep ==
    \/ Counted(MaxCullDeepCalls) /\ calls = Cardinality(issued)
                                 /\ \E s \in sceneIds : AcquireSceneNode(s)
    \/ Counted(MaxCullDeepCalls) /\ Len(registered) = 0 /\ calls = Cardinality(issued)
                                 /\ \E s \in sceneIds, model \in {a \in Assets : a.meshCount = 1} :
                                       AddModelToScene(s, model, 1)
    \/ Counted(MaxCullDeepCalls) /\ \E h \in issued, m \in ModelInputs \ {ZeroModelId} :
                                       /\ \A g \in issued : NodeAt(scenes, g).model = ZeroModelId
                                       /\ SetSceneNodeModel(h, m)
    \/ Counted(MaxCullDeepCalls) /\ \E h \in issued, x \in CullCoords :
                                       /\ NodeAt(scenes, h).position # x
                                       /\ SetSceneNodePosition(h, x)
    \/ Counted(MaxCullDeepCalls) /\ \E h, p \in issued :
                                       /\ lineage[h] = "fresh" /\ NoCycle(h, p)
                                       /\ SetSceneNodeParent(h, p)
    \/ Counted(MaxCullDeepCalls) /\ (\E g \in issued : NodeAt(scenes, g).model # ZeroModelId)
                                 /\ \E s \in sceneIds, c \in {v \in CameraViews : v.camX = 0 /\ ~v.drawBoundingBoxes} :
                                       DrawScene(s, c)

SpecCullDeep == InitLoaded /\ [][NextCullDeep]_vars

\* the three setters and the transform query over a forest of one loaded scene
NextSetters ==
    \/ Counted(MaxQueryCalls) /\ \E s \in sceneIds : AcquireSceneNode(s)
    \/ Counted(MaxQueryCalls) /\ \E h, p \in issued : NoCycle(h, p) /\ SetSceneNodeParent(h, p)
    \/ Counted(MaxQueryCalls) /\ \E h \in issued, x \in Coords : SetSceneNodePosition(h, x)
    \/ Counted(MaxQueryCalls) /\ \E h \in issued, d \in Rotations : SetSceneNodeRotation(h, d)
    \/ Counted(MaxQueryCalls) /\ \E h \in issued, s \in Scales : SetSceneNodeScale(h, s)
    \/ Counted(MaxQueryCalls) /\ \E h \in issued : GetSceneNodeLocalTransform(h)

SpecSetters == InitLoaded /\ [][NextSetters]_vars

\* a caller that gives a parent only to nodes that have none yet, and never
\* makes a node its own parent
SingleParenting(h, p) ==
    /\ h # p
    /\ IsSceneNodeValid(scenes, h) => NodeAt(scenes, h).parent = ZeroNodeId

NextSingle ==
    \/ Counted(MaxCalls) /\ \E s \in sceneIds : AcquireSceneNodeWithin(s, MaxListNodes)
    \/ Counted(MaxCalls) /\ \E h \in issued : ReleaseSceneNode(h)
    \/ Counted(MaxCalls) /\ \E h, p \in issued : SingleParenting(h, p) /\ SetSceneNodeParent(h, p)

SpecSingle == InitLoaded /\ [][NextSingle]_vars

\* a caller that queries the transform only of nodes it never gave a parent,
\* so that no query recomputes another node on the way
NextFirstQuery ==
    \/ Counted(MaxQueryCalls) /\ \E s \in sceneIds : AcquireSceneNode(s)
    \/ Counted(MaxQueryCalls) /\ \E h \in issued : ReleaseSceneNode(h)
    \/ Counted(MaxQueryCalls) /\ \E h, p \in issued : SetSceneNodeParent(h, p)
    \/ Counted(MaxQueryCalls) /\ \E h \in issued, x \in Coords : SetSceneNodePosition(h, x)
    \/ Counted(MaxQueryCalls) /\ \E h \in issued :
          lineage[h] \in {"fresh", "queried"} /\ GetSceneNodeLocalTransform(h)
    \/ Counted(MaxQueryCalls) /\ \E h \in issued :
          lineage[h] \in {"fresh", "queried"} /\ GetSceneNodeWorldPosition(h)

SpecFirstQuery == InitLoaded /\ [][NextFirstQuery]_vars

\* two scenes with models of their own, and nodes given model handles of
\* either scene
NextShared ==
    \/ Counted(MaxDrawCalls) /\ LoadScene
    \/ Counted(MaxDrawCalls) /\ \E s \in sceneIds, model \in Assets : AddModelToScene(s, model, 0)
    \/ Counted(MaxDrawCalls) /\ \E s \in sceneIds : AcquireSceneNode(s)
    \/ Counted(MaxDrawCalls) /\ \E h \in issued, m \in ModelInputs : SetSceneNodeModel(h, m)
    \/ Counted(MaxDrawCalls) /\ \E s \in sceneIds, v \in Views : DrawScene(s, v)

SpecShared == InitLoaded /\ [][NextShared]_vars

FirstParenting(h, p) == lineage[h] \in {"fresh", "queried"} /\ NoCycle(h, p)

\* the next coordinate of a node that a caller moves step by step, back and
\* forth over the coordinates
NextCoord(h) == (NodeAt(scenes, h).position + 1) % (MaxCoord + 1)

\* scenes loaded and unloaded, trees of named nodes built and released
NextNames ==
    \/ Counted(MaxNameCalls) /\ LoadScene
    \/ Counted(MaxNameCalls) /\ \E s \in sceneIds : UnloadScene(s)
    \/ Counted(MaxNameCalls) /\ \E s \in sceneIds : AcquireSceneNode(s)
    \/ Counted(MaxNameCalls) /\ \E h, p \in issued : FirstParenting(h, p) /\ SetSceneNodeParent(h, p)
    \/ Counted(MaxNameCalls) /\ \E h \in issued, n \in Names : SetSceneNodeName(h, n)
    \/ Counted(MaxNameCalls) /\ \E h \in issued : GetSceneNodeName(h)
    \/ Counted(MaxNameCalls) /\ \E h \in issued : ReleaseSceneNode(h)

SpecNames == Init /\ [][NextNames]_vars

\* scenes loaded, filled with nodes, names and models, and unloaded
NextStorage ==
    \/ Counted(MaxNameCalls) /\ LoadScene
    \/ Counted(MaxNameCalls) /\ \E s \in sceneIds : UnloadScene(s)
    \/ Counted(MaxNameCalls) /\ \E s \in sceneIds : AcquireSceneNode(s)
    \/ Counted(MaxNameCalls) /\ \E s \in sceneIds, model \in Assets : AddModelToScene(s, model, 0)
    \/ Counted(MaxNameCalls) /\ \E h \in issued, n \in Names : SetSceneNodeName(h, n)

SpecStorage == Init /\ [][NextStorage]_vars

\* A well-behaved caller: it acquires its nodes first, builds a tree with one
\* SetSceneNodeParent per node, moves nodes step by step and queries world
\* positions.
NextDeep ==
    \/ Counted(MaxDeepCalls) /\ calls = Cardinality(issued)
                             /\ \E s \in sceneIds : AcquireSceneNode(s)
    \/ Counted(MaxDeepCalls) /\ \E h, p \in issued :
                                 FirstParenting(h, p) /\ SetSceneNodeParent(h, p)
    \/ Counted(MaxDeepCalls) /\ \E h \in issued : SetSceneNodePosition(h, NextCoord(h))
    \/ Counted(MaxDeepCalls) /\ \E h \in issued : GetSceneNodeWorldPosition(h)

SpecDeep == InitLoaded /\ [][NextDeep]_vars

---------------------------------------------------------------------------
\* What the claims speak of.

\* The composition of the current local transforms of h and of every node on
\* its current parent chain, up to the first parent handle that does not
\* resolve (fuel: one step per slot; the chain of a node whose transform
\* query returned does not circle).
RECURSIVE ComposedTransform(_, _, _)
ComposedTransform(sc, h, fuel) ==
    IF ~GetSceneNodeFound(sc, h) \/ fuel = 0 THEN MatrixIdentity
    ELSE MatrixMultiply(LocalMatrix(NodeAt(sc, h)),
                        ComposedTransform(sc, NodeAt(sc, h).parent, fuel - 1))

WorldTransform(sc, h) == ComposedTransform(sc, h, MaxNodes + 1)

TransformQueries == {"GetSceneNodeLocalTransform", "GetSceneNodeWorldPosition"}

\* the last call was a transform query of a live node, and it returned
QueryReturned == call.op \in TransformQueries /\ call.found /\ status = "ok"

Valid(sc) == {h \in issued : IsSceneNodeValid(sc, h)}

\* the node has no child the release would walk to
Childless(sc, h) == ~GetSceneNodeFound(sc, NodeAt(sc, h).firstChildId)

\* no SetSceneNodeParent succeeded so far: the run is one of acquire and
\* release calls alone
NeverParented == \A g \in issued : lineage[g] \in {"fresh", "queried"}

\* C1: the handle AcquireSceneNode returns on a loaded scene is valid right
\* after the call and acquire invalidates no live handle; ReleaseSceneNode of
\* a valid handle leaves it invalid, and where the node has no children every
\* other live handle stays valid; in a run of acquire and release calls alone
\* the release always returns.
C1_AcquireReleaseValidity ==
    [][/\ (call'.op = "AcquireSceneNode" /\ IsSceneValid(scenes, call'.scene)) =>
            /\ call'.ret # ZeroNodeId
            /\ IsSceneNodeValid(scenes', call'.ret)
            /\ Valid(scenes) \subseteq Valid(scenes')
       /\ (call'.op = "ReleaseSceneNode" /\ call'.found) =>
            /\ NeverParented => status' = "ok"
            /\ status' = "ok" =>
                 /\ ~IsSceneNodeValid(scenes', call'.node)
                 /\ Childless(scenes, call'.node) =>
                        Valid(scenes) \ {call'.node} \subseteq Valid(scenes')
      ]_vars

\* a valid handle was released while another handle was live, and that one is
\* still valid
C1_Witness ==
    /\ call.op = "ReleaseSceneNode" /\ call.found /\ status = "ok"
    /\ ~IsSceneNodeValid(scenes, call.node)
    /\ Valid(scenes) # {}

\* C2: while the scene stays loaded, a handle AcquireSceneNode returns has a
\* generation above that of every handle issued before for the same slot
\* index, and a released handle is never valid again, whatever acquire,
\* release and setParent calls follow.
C2_GenerationsOnlyGrow ==
    [][/\ \A h \in released' : ~IsSceneNodeValid(scenes', h)
       /\ (call'.op = "AcquireSceneNode" /\ call'.ret # ZeroNodeId) =>
            \A g \in issued :
                (g.sceneId.id = call'.ret.sceneId.id /\ g.id = call'.ret.id) =>
                    g.generation < call'.ret.generation
      ]_vars

\* a node was acquired after a handle of the same scene was released, and the
\* released handle does not resolve
C2_Witness ==
    /\ call.op = "AcquireSceneNode" /\ call.ret # ZeroNodeId
    /\ \E h \in released :
          ~IsSceneNodeValid(scenes, h) /\ h.sceneId = call.ret.sceneId

\* C3: once UnloadScene ran on a valid scene handle, that handle is never
\* valid again, and neither is any node handle issued for it.
C3_UnloadedStaysInvalid ==
    \A s \in unloaded :
        /\ ~IsSceneValid(scenes, s)
        /\ \A h \in issued : h.sceneId = s => ~IsSceneNodeValid(scenes, h)

\* C4: ReleaseSceneNode of a valid root leaves invalid the root and every node
\* whose parent chain led to the root before the call.
C4_ReleaseTakesSubtree ==
    [][(call'.op = "ReleaseSceneNode" /\ call'.found /\ status' = "ok") =>
            \A g \in issued :
                InSubtree(scenes, call'.node, g) => ~IsSceneNodeValid(scenes', g)
      ]_vars

\* the three conditions of a successful resolution, side by side
Resolves(sc, h) ==
    /\ h.sceneId.id < Len(sc)
    /\ h.sceneId.id < Len(sc) => sc[h.sceneId.id + 1].generation = h.sceneId.generation
    /\ h.sceneId.id < Len(sc) => h.id < Len(sc[h.sceneId.id + 1].nodes)
    /\ (h.sceneId.id < Len(sc) /\ h.id < Len(sc[h.sceneId.id + 1].nodes)) =>
            sc[h.sceneId.id + 1].nodes[h.id + 1].generation = h.generation

\* C5: a node handle resolves exactly when its scene index is below the scene
\* count, the scene's generation equals the handle's, the node index is below
\* the scene's node count and the slot's generation equals the handle's; the
\* lookup changes no state.
C5_ResolutionIsExact ==
    [][call'.op = "IsSceneNodeValid" =>
            /\ call'.found = Resolves(scenes, call'.node)
            /\ scenes' = scenes
            /\ status' = status
      ]_vars

\* lookups of a released handle, of a handle of a wrong scene generation and
\* of a live handle: the first two fail on the generation alone
C5_Witness ==
    /\ call.op = "IsSceneNodeValid" /\ ~call.found
    /\ call.node.sceneId.id < Len(scenes)
    /\ call.node.id < Len(scenes[call.node.sceneId.id + 1].nodes)
    /\ call.node \in released \cup JunkNodeIds

\* C6: a transform query of a valid node returns the composition of the
\* current local transforms of the node and of all nodes on its parent chain.
C6_QueryReturnsComposition ==
    QueryReturned => call.mat = WorldTransform(scenes, call.node)

\* C7: a query of a node, then SetSceneNodePosition on one of its ancestors,
\* then a query of the node: the second query returns the world position
\* computed from the ancestor's new position.
C7_AncestorMoveReachesChild ==
    (watch.stage = "requeried" /\ QueryReturned
     /\ call.op = "GetSceneNodeWorldPosition") =>
        WorldPositionOf(call.mat) = WorldPositionOf(WorldTransform(scenes, call.node))

\* C8: of two GetSceneNodeLocalTransform calls on one valid node, one right
\* after the other, the second returns the matrix the first returned and
\* leaves every node's cached matrix and marker as they were.
C8_RepeatedQueryIdempotent ==
    [][(/\ call.op = "GetSceneNodeLocalTransform" /\ call.found /\ status = "ok"
        /\ call'.op = "GetSceneNodeLocalTransform" /\ call'.node = call.node
        /\ calls' = calls + 1) =>
            /\ status' = "ok"
            /\ call'.mat = call.mat
            /\ scenes' = scenes
      ]_vars

\* the same query ran twice in a row on a node that has a parent and was
\* moved, so that the first of the two had a matrix to recompute
C8_Witness ==
    /\ call.op = "GetSceneNodeLocalTransform" /\ watch.again /\ status = "ok"
    /\ IsSceneNodeValid(scenes, NodeAt(scenes, call.node).parent)
    /\ call.mat # MatrixIdentity

\* the child of the claim: a live node given a parent once, before its first
\* transform query, whose parent is a live node that never got a parent
ChildOfRoot(h) ==
    /\ h \in issued
    /\ IsSceneNodeValid(scenes, h)
    /\ lineage[h] = "once"
    /\ NodeAt(scenes, h).parent \in issued
    /\ IsSceneNodeValid(scenes, NodeAt(scenes, h).parent)
    /\ lineage[NodeAt(scenes, h).parent] \in {"fresh", "queried"}

\* C9: the world position of a child with local position T, parented once
\* before its first query to a root with local position P, is P + T.
C9_TranslationsAdd ==
    (QueryReturned /\ call.op = "GetSceneNodeWorldPosition" /\ ChildOfRoot(call.node)) =>
        WorldPositionOf(call.mat) =
            NodeAt(scenes, NodeAt(scenes, call.node).parent).position
            + NodeAt(scenes, call.node).position

Mutators ==
    {"SetSceneNodePosition", "SetSceneNodeRotation", "SetSceneNodeScale",
     "SetSceneNodePositionV", "SetSceneNodeRotationV", "SetSceneNodeScaleV",
     "SetSceneNodeName", "SetSceneNodeIdentifier", "SetSceneNodeModel",
     "ReleaseSceneNode"}

\* the last call was a mutator whose node handle, or for SetSceneNodeParent
\* whose node or parent handle, did not resolve in the arena sc
MutatorMissed(c, sc) ==
    \/ c.op \in Mutators /\ ~IsSceneNodeValid(sc, c.node)
    \/ c.op = "SetSceneNodeParent"
       /\ (~IsSceneNodeValid(sc, c.node) \/ ~IsSceneNodeValid(sc, c.other))

\* C10: a node mutator called with a handle that does not resolve changes
\* nothing of the scene state.
C10_MutatorOnInvalidIsNoOp ==
    [][(calls' = calls + 1 /\ MutatorMissed(call', scenes)) =>
            scenes' = scenes /\ status' = status
      ]_vars

\* a setter was called with a released handle, whose slot is still there
C10_Witness ==
    /\ call.op \in Mutators \ {"ReleaseSceneNode"}
    /\ call.node \in released
    /\ ~call.found
    /\ status = "ok"

\* C11: called with a node handle that does not resolve, the world position
\* query and GetSceneNodeLocalPosition return 0 on the x axis, and the three
\* world direction queries return the zero vector.
C11_InvalidHandleGivesZeroVector ==
    ~call.found =>
        /\ call.op = "GetSceneNodeWorldPosition" => WorldPositionOf(call.mat) = 0
        /\ call.op = "GetSceneNodeLocalPosition" => call.val = 0
        /\ call.op = "GetSceneNodeWorldForward" => WorldForwardOf(call.mat) = <<0, 0, 0>>
        /\ call.op = "GetSceneNodeWorldUp" => WorldUpOf(call.mat) = <<0, 0, 0>>
        /\ call.op = "GetSceneNodeWorldRight" => WorldRightOf(call.mat) = <<0, 0, 0>>

\* every live node whose parent handle resolves has that parent in its own
\* scene
ParentsInOwnScene(sc) ==
    \A h \in issued :
        (IsSceneNodeValid(sc, h) /\ IsSceneNodeValid(sc, NodeAt(sc, h).parent)) =>
            NodeAt(sc, h).parent.sceneId = h.sceneId

RECURSIVE SiblingWalk(_, _, _)
SiblingWalk(sc, id, fuel) ==
    IF ~GetSceneNodeFound(sc, id) \/ fuel = 0 THEN <<>>
    ELSE <<id>> \o SiblingWalk(sc, NodeAt(sc, id).nextSiblingId, fuel - 1)

\* the child list of the live node p, as ReleaseSceneNode walks it
ChildList(sc, p) ==
    SiblingWalk(sc, NodeAt(sc, p).firstChildId, Len(sc[p.sceneId.id + 1].nodes) + 1)

Occurrences(list, h) == Cardinality({i \in 1..Len(list) : list[i] = h})

\* C13: a successful SetSceneNodeParent(node, newParent) on a node that has a
\* parent leaves the node in exactly one child list, newParent's, exactly
\* once, and leaves the old parent's other children in the old parent's list.
C13_ReparentDetaches ==
    [][(/\ call'.op = "SetSceneNodeParent" /\ calls' = calls + 1 /\ call'.found
        /\ IsSceneNodeValid(scenes, NodeAt(scenes, call'.node).parent)) =>
            /\ \A q \in Valid(scenes') :
                   Occurrences(ChildList(scenes', q), call'.node) =
                       IF q = call'.other THEN 1 ELSE 0
            /\ \A q \in Valid(scenes) \ {call'.node} :
                   Occurrences(ChildList(scenes, NodeAt(scenes, call'.node).parent), q) > 0
                   => Occurrences(ChildList(scenes', NodeAt(scenes, call'.node).parent), q) > 0
      ]_vars

LiveSlots(sc, sceneId) ==
    {h.id : h \in {g \in issued \ released : g.sceneId = sceneId /\ IsSceneNodeValid(sc, g)}}

\* the model handle names a registered record of the scene, same generation
ModelResolves(sc, sceneId, m) ==
    /\ m.id < Len(sc[sceneId.id + 1].models)
    /\ sc[sceneId.id + 1].models[m.id + 1].generation > 0
    /\ sc[sceneId.id + 1].models[m.id + 1].generation = m.generation

\* the live node indices of a scene whose model handle resolves
Drawable(sc, sceneId) ==
    {i \in LiveSlots(sc, sceneId) :
        ModelResolves(sc, sceneId, sc[sceneId.id + 1].nodes[i + 1].model)}

\* the sum of meshCount (perMesh = 1) or of meshCount * perMesh(model) over
\* the models of a set of node indices
RECURSIVE MeshSum(_, _, _, _)
MeshSum(sc, sceneId, slots, triangles) ==
    IF slots = {} THEN 0
    ELSE LET i == CHOOSE j \in slots : TRUE
             model == sc[sceneId.id + 1].models[sc[sceneId.id + 1].nodes[i + 1].model.id + 1].model
         IN  (IF triangles THEN model.meshCount * (model.vertexCount \div 3)
              ELSE model.meshCount)
             + MeshSum(sc, sceneId, slots \ {i}, triangles)

\* C15: after DrawScene on a valid scene, culledMeshCount + meshDrawCount is
\* the sum of meshCount over exactly the live nodes whose model handle
\* resolves (unset or stale references add nothing), and trianglesDrawCount
\* is the sum of vertexCount / 3 over the meshes drawn.
C15_StatsAccounting ==
    (call.op = "DrawScene" /\ call.found) =>
        /\ status = "ok"
        /\ call.stats.culledMeshCount + call.stats.meshDrawCount
              = MeshSum(scenes, call.scene, Drawable(scenes, call.scene), FALSE)
        /\ call.stats.meshDrawCount
              = MeshSum(scenes, call.scene, Drawable(scenes, call.scene) \cap call.view, FALSE)
        /\ call.stats.trianglesDrawCount
              = MeshSum(scenes, call.scene, Drawable(scenes, call.scene) \cap call.view, TRUE)

\* the node indices of a scene that were released and not acquired again
ReleasedSlots(sc, sceneId) ==
    {h.id : h \in {g \in released : g.sceneId = sceneId}} \ LiveSlots(sc, sceneId)

\* C16: DrawScene visits only live nodes: a slot that was released (directly
\* or with an ancestor) and not acquired again is never counted by a later
\* DrawScene, whatever model it held when it was released.
C16_ReleasedNodeNotDrawn ==
    (call.op = "DrawScene" /\ call.found) =>
        call.drawn \cap ReleasedSlots(scenes, call.scene) = {}

\* C17: when the free list of the scene is non-empty, AcquireSceneNode
\* returns the index of the free-list head, takes that slot off the list and
\* leaves nodesCount unchanged; the arena grows only when the list is empty.
C17_FreeSlotReused ==
    [][(call'.op = "AcquireSceneNode" /\ calls' = calls + 1
          /\ IsSceneValid(scenes, call'.scene)
          /\ scenes[call'.scene.id + 1].firstFree # ZeroNodeId) =>
            /\ call'.ret.id = scenes[call'.scene.id + 1].firstFree.id
            /\ scenes'[call'.scene.id + 1].firstFree # scenes[call'.scene.id + 1].firstFree
            /\ Len(scenes'[call'.scene.id + 1].nodes) = Len(scenes[call'.scene.id + 1].nodes)]_vars

\* C18: every live node slot has stored generation > 0 and every released
\* slot (one on the free list) has stored generation <= 0.
C18_GenerationSign ==
    \A h \in issued :
        (h.sceneId.id < Len(scenes) /\ IsSceneValid(scenes, h.sceneId)) =>
            /\ h.id \in LiveSlots(scenes, h.sceneId)
                  => scenes[h.sceneId.id + 1].nodes[h.id + 1].generation > 0
            /\ h.id \in ReleasedSlots(scenes, h.sceneId)
                  => scenes[h.sceneId.id + 1].nodes[h.id + 1].generation <= 0

\* the registrations whose records a scene holds
RecordsOf(sc, sceneId) ==
    {sc[sceneId.id + 1].models[i].reg : i \in 1..Len(sc[sceneId.id + 1].models)}

\* C19: UnloadScene of a valid scene calls UnloadModel exactly once for
\* every record of the scene registered with manageModel # 0 and never for
\* one registered with manageModel = 0; no other call releases a model.
C19_ManagedModelsReleasedOnce ==
    [][/\ Len(registered') >= Len(registered)
       /\ \A r \in 1..Len(registered) :
             registered'[r].unloads - registered[r].unloads =
                IF /\ call'.op = "UnloadScene" /\ calls' = calls + 1
                   /\ IsSceneValid(scenes, call'.scene)
                   /\ r \in RecordsOf(scenes, call'.scene)
                   /\ registered[r].manageModel # 0
                THEN 1 ELSE 0]_vars

\* C20: UnloadScene(s) on a valid s makes s and every node handle of s
\* invalid; UnloadScene on an invalid or already unloaded handle changes no
\* scene and releases nothing, also when a later scene sits in the slot.
C20_UnloadOnceOnly ==
    [][(call'.op = "UnloadScene" /\ calls' = calls + 1) =>
          /\ (IsSceneValid(scenes, call'.scene) /\ call'.scene \notin unloaded) =>
                /\ ~IsSceneValid(scenes', call'.scene)
                /\ \A h \in issued : h.sceneId = call'.scene => ~IsSceneNodeValid(scenes', h)
          /\ (~IsSceneValid(scenes, call'.scene) \/ call'.scene \in unloaded) =>
                /\ scenes' = scenes
                /\ status' = status
                /\ registered' = registered]_vars

\* C21: an UnloadScene that unloads a scene frees the scene arena exactly
\* when no loaded scene is left afterwards; while a scene stays loaded, the
\* arena is kept and the slots of the loaded scenes are unchanged.
C21_ArenaFreedWithLastScene ==
    [][(call'.op = "UnloadScene" /\ calls' = calls + 1 /\ status' = "ok"
          /\ IsSceneValid(scenes, call'.scene)) =>
            /\ (scenes' = <<>>) <=> (loaded' = {})
            /\ \A i \in loaded' : i < Len(scenes') /\ scenes'[i + 1] = scenes[i + 1]]_vars

\* the model handle of registration r names the record stored for r
HandleNamesRecord(sc, r) ==
    LET m == registered[r].handle
    IN  /\ IsSceneValid(sc, m.ownerSceneId)
        /\ ModelResolves(sc, m.ownerSceneId, m)
        /\ sc[m.ownerSceneId.id + 1].models[m.id + 1].reg = r

\* the step is an AddModelToScene that stored a record
AddedRecord ==
    /\ call'.op = "AddModelToScene" /\ calls' = calls + 1 /\ status' = "ok"
    /\ IsSceneValid(scenes, call'.scene)

\* C22: the model registry is append-only: a successful AddModelToScene
\* raises modelsCount by one, returns the handle (scene, previous
\* modelsCount, generation of the new record) and leaves the older records
\* alone; every model handle returned for a scene names its record until the
\* program unloads that scene.
C22_ModelRegistryAppendOnly ==
    [][/\ AddedRecord =>
            LET old == scenes[call'.scene.id + 1]
                new == scenes'[call'.scene.id + 1]
            IN  /\ new.modelsCount = old.modelsCount + 1
                /\ call'.model.ownerSceneId = call'.scene
                /\ call'.model.id = old.modelsCount
                /\ ModelResolves(scenes', call'.scene, call'.model)
                /\ \A i \in 1..Len(old.models) : new.models[i] = old.models[i]
       /\ \A r \in 1..Len(registered) :
             (registered[r].handle.ownerSceneId \notin unloaded' /\ status' = "ok")
                => HandleNamesRecord(scenes', r)]_vars

\* C23: AddModelToScene and AcquireSceneNode called with a scene handle that
\* does not resolve return the all-zero handle and change no state.
C23_InvalidSceneAllocatesNothing ==
    [][(call'.op \in {"AddModelToScene", "AcquireSceneNode"} /\ calls' = calls + 1
          /\ ~IsSceneValid(scenes, call'.scene)) =>
            /\ scenes' = scenes
            /\ status' = status
            /\ registered' = registered
            /\ issued' = issued
            /\ call'.ret = ZeroNodeId
            /\ call'.model = ZeroModelId]_vars

\* AcquireSceneNode or AddModelToScene was called with the handle of an
\* unloaded scene whose slot is still in the arena
C23_Witness ==
    /\ call.op \in {"AddModelToScene", "AcquireSceneNode"}
    /\ ~IsSceneValid(scenes, call.scene)
    /\ call.scene \in unloaded
    /\ call.scene.id < Len(scenes)
    /\ call.ret = ZeroNodeId /\ call.model = ZeroModelId

\* C26: CheckCollisionBoxFrustum returns 0 (culled) if and only if some
\* plane has all eight corners on its negative side, whatever the sides of
\* the corners the loop did not look at.
C26_CulledIffPlaneExcludesAll ==
    call.op = "CheckCollisionBoxFrustum" =>
        ((call.val = 0) <=> (\E i \in 1..6 : \A j \in 1..8 : call.sides[i][j]))

\* a culled box for which an earlier plane ended its corner loop early with
\* seven corners on the negative side
C26_Witness ==
    /\ call.op = "CheckCollisionBoxFrustum"
    /\ call.val = 0
    /\ ~call.sides[1][1] /\ \A j \in 2..8 : call.sides[1][j]
    /\ \A j \in 1..8 : call.sides[6][j]

\* the model the node in slot i of the scene refers to
ModelOfSlot(sc, sceneId, i) ==
    ModelSlot(sc[sceneId.id + 1].models, sc[sceneId.id + 1].nodes[i + 1].model.id).model

\* the box of half extent half2 (in half units) under matrix lies wholly on
\* the negative side of one of the planes
BeyondOnePlane(half2, planes, matrix) ==
    \E i \in 1..6 : \A j \in 1..8 : CornerSides(half2, planes, matrix)[i][j]

Abs(x) == IF x < 0 THEN -x ELSE x

\* the world-space box of the model under matrix contains the point
\* (camX, 0, 0)
BoxContainsCamera(half2, matrix, camX) ==
    Abs(2 * camX - 2 * matrix.m12) <= Abs(matrix.m0) * half2

\* C24: culling follows the node's current transform.  When DrawScene drew
\* the mesh of a node with a one-mesh model and SetSceneNodePosition then
\* moved the node so that its world box lies wholly beyond one plane of the
\* frustum, the next DrawScene culls it; when the node is then moved back so
\* that the box is beyond no plane, the next DrawScene draws it again.
C24_CullingFollowsTransform ==
    [][(/\ call'.op = "DrawScene" /\ calls' = calls + 1 /\ status' = "ok" /\ call'.camera
        /\ watch.stage \in {"shownMoved", "hiddenMoved"}
        /\ watch.node.sceneId = call'.scene
        /\ watch.node.id \in LiveSlots(scenes, call'.scene)
        /\ ModelResolves(scenes, call'.scene, NodeAt(scenes, watch.node).model)
        /\ ModelOfSlot(scenes, call'.scene, watch.node.id).meshCount = 1) =>
           LET beyond == BeyondOnePlane(ModelOfSlot(scenes, call'.scene, watch.node.id).half2,
                                        GetCameraFrustumPlanes(call'.camX),
                                        WorldTransform(scenes, watch.node))
           IN  /\ (watch.stage = "shownMoved" /\ beyond) =>
                     (watch.node.id \in call'.drawn /\ watch.node.id \notin call'.view)
               /\ (watch.stage = "hiddenMoved" /\ ~beyond) =>
                     watch.node.id \in call'.view]_vars

\* a node with a one-mesh model was drawn, moved out, culled, moved back and
\* drawn again
C24_Witness ==
    /\ call.op = "DrawScene" /\ call.camera /\ status = "ok"
    /\ watch.stage = "reshown"
    /\ watch.node.id \in LiveSlots(scenes, call.scene)
    /\ ModelResolves(scenes, call.scene, NodeAt(scenes, watch.node).model)
    /\ ModelOfSlot(scenes, call.scene, watch.node.id).meshCount = 1
    /\ call.stats.meshDrawCount = 1 /\ call.stats.culledMeshCount = 0

\* C25: a mesh whose world-space bounding box contains the camera position
\* is never reported culled by DrawScene.
C25_BoxAroundCameraNotCulled ==
    (call.op = "DrawScene" /\ call.camera /\ status = "ok") =>
        \A i \in call.drawn :
            BoxContainsCamera(ModelOfSlot(scenes, call.scene, i).half2,
                              scenes[call.scene.id + 1].nodes[i + 1].localToWorld,
                              call.camX)
                => i \in call.view

\* a camera draw in which the box of a drawn mesh contains the camera
C25_Witness ==
    /\ call.op = "DrawScene" /\ call.camera /\ status = "ok"
    /\ \E i \in call.drawn :
          BoxContainsCamera(ModelOfSlot(scenes, call.scene, i).half2,
                            scenes[call.scene.id + 1].nodes[i + 1].localToWorld,
                            call.camX)

\* a SetSceneNodeParent call that came past its three tests and linked the node
ParentLinked ==
    /\ call'.op = "SetSceneNodeParent" /\ calls' = calls + 1
    /\ SameSceneIndex(call'.node, call'.other)
    /\ GetSceneNodeFound(scenes, call'.node)
    /\ GetSceneNodeFound(scenes, call'.other)

\* C27: SetSceneNodeParent dirties the node.  Right after every call that
\* linked the node, the node's marker differs from its ancestor-sum (where
\* the walk up the new parent chain ends), so the next transform query
\* recomputes the matrix.
C27_ReparentDirties ==
    [][(ParentLinked /\ GetSceneNodeGenerationSum(scenes', call'.node).status = "ok")
          => IsSceneNodeTRSDirty(scenes', call'.node)]_vars

\* a queried node was given a parent and is dirty afterwards
C27_Witness ==
    /\ call.op = "SetSceneNodeParent" /\ call.found /\ status = "ok"
    /\ GetSceneNodeFound(scenes, call.node)
    /\ NodeAt(scenes, call.node).parent = call.other
    /\ lineage[call.node] = "spoiled"
    /\ GetSceneNodeGenerationSum(scenes, call.node).status = "ok"
    /\ IsSceneNodeTRSDirty(scenes, call.node)

TRSSetters == {"SetSceneNodePosition", "SetSceneNodeRotation", "SetSceneNodeScale"}

\* a position, rotation or scale setter was called on a node that resolves
SetterApplied ==
    /\ call'.op \in TRSSetters /\ calls' = calls + 1
    /\ GetSceneNodeFound(scenes, call'.node)

\* C28: every position/rotation/scale setter moves the node to dirty.  Right
\* after the setter on a valid node the node's own modification-generation
\* has grown by exactly 1, and the marker of the node and of each of its
\* descendants differs from its ancestor-sum.
C28_SetterDirties ==
    [][SetterApplied =>
          /\ NodeAt(scenes', call'.node).modTRSGeneration
                = NodeAt(scenes, call'.node).modTRSGeneration + 1
          /\ \A g \in issued :
                InSubtree(scenes', call'.node, g) => IsSceneNodeTRSDirty(scenes', g)]_vars

\* a setter was called on a queried node that has a parent and a child, and
\* the node and the child are dirty afterwards
C28_Witness ==
    /\ call.op \in TRSSetters /\ call.found /\ status = "ok"
    /\ GetSceneNodeFound(scenes, NodeAt(scenes, call.node).parent)
    /\ NodeAt(scenes, call.node).modTRSMarker > 0
    /\ \E g \in issued : /\ IsAncestor(scenes, call.node, g)
                          /\ NodeAt(scenes, g).modTRSMarker > 0
                          /\ IsSceneNodeTRSDirty(scenes, g)
    /\ IsSceneNodeTRSDirty(scenes, call.node)

\* the walk up the parent chain of the live node h ends
ParentChainEnds(sc, h) == GetSceneNodeGenerationSum(sc, h).status = "ok"

\* C29: transform queries terminate.  In every state reached by
\* AcquireSceneNode, SetSceneNodeParent and ReleaseSceneNode the parent chain
\* of every live node reaches a node without a valid parent after finitely
\* many steps.
C29_ParentChainsEnd ==
    \A h \in issued : GetSceneNodeFound(scenes, h) => ParentChainEnds(scenes, h)

\* a node with a parent and a grandparent whose chain ends
C29_Witness ==
    \E h \in issued :
        /\ GetSceneNodeFound(scenes, h)
        /\ GetSceneNodeFound(scenes, NodeAt(scenes, h).parent)
        /\ GetSceneNodeFound(scenes, NodeAt(scenes, NodeAt(scenes, h).parent).parent)
        /\ ParentChainEnds(scenes, h)

\* ReleaseSceneNode was called on a handle that resolves
ReleaseApplied ==
    /\ call'.op = "ReleaseSceneNode" /\ calls' = calls + 1
    /\ GetSceneNodeFound(scenes, call'.node)

\* the released node has a valid parent and is not the head of its child list
BehindHead(sc, h) ==
    /\ GetSceneNodeFound(sc, NodeAt(sc, h).parent)
    /\ NodeAt(sc, NodeAt(sc, h).parent).firstChildId.id # h.id

\* C30: ReleaseSceneNode always completes on a valid handle.  When the
\* released node has a valid parent and is not the head of the parent's child
\* list, the sibling scan reaches a live sibling whose nextSibling is the
\* released node: the scan neither runs off the end of the list nor circles,
\* and the call returns with the node released.
C30_ReleaseCompletes ==
    [][ReleaseApplied =>
          /\ BehindHead(scenes, call'.node) =>
                SiblingScan(scenes, NodeAt(scenes, NodeAt(scenes, call'.node).parent).firstChildId,
                            call'.node, Len(scenes[call'.node.sceneId.id + 1].nodes)).status = "ok"
          /\ status' = "ok"
          /\ ~GetSceneNodeFound(scenes', call'.node)]_vars

\* a node behind the head of its parent's child list was released
C30_Witness ==
    /\ call.op = "ReleaseSceneNode" /\ call.found /\ status = "ok"
    /\ call.node \in released
    /\ \E p, g \in issued :
          /\ GetSceneNodeFound(scenes, p) /\ GetSceneNodeFound(scenes, g)
          /\ NodeAt(scenes, p).firstChildId = g
          /\ NodeAt(scenes, g).parent = p
          /\ NodeAt(scenes, g).nextSiblingId # call.node
          /\ lineage[call.node] = "once" /\ lineage[g] = "once"
          /\ g.id > call.node.id

\* the node indices for which the node loop of DrawScene forms
\* &scene->models[node->model.id]: every slot it does not skip
DrawLookups(sc, sceneId) ==
    {i \in 0..(Len(sc[sceneId.id + 1].nodes) - 1) :
        ~DrawSkipsSlot(sc[sceneId.id + 1].nodes[i + 1])}

\* the scene has a model array and the node's model index lies inside it
LookupInBounds(sc, sceneId, i) ==
    /\ sc[sceneId.id + 1].models # <<>>
    /\ sc[sceneId.id + 1].nodes[i + 1].model.id < sc[sceneId.id + 1].modelsCount

\* C31: DrawScene never reads the model registry out of bounds.  For every
\* node of a valid scene the model lookup is made only when the scene has a
\* model array and node.model.id < modelsCount, and the call completes.
C31_ModelLookupInBounds ==
    [][(call'.op = "DrawScene" /\ calls' = calls + 1 /\ IsSceneValid(scenes, call'.scene)) =>
          /\ status' = "ok"
          /\ \A i \in DrawLookups(scenes, call'.scene) :
                LookupInBounds(scenes, call'.scene, i)]_vars

\* a DrawScene that looked up the model of a live node inside the registry
C31_Witness ==
    /\ call.op = "DrawScene" /\ call.found /\ status = "ok"
    /\ IsSceneValid(scenes, call.scene)
    /\ \E i \in LiveSlots(scenes, call.scene) :
          /\ LookupInBounds(scenes, call.scene, i)
          /\ i \in call.drawn

\* the live nodes whose parent field is p
ChildrenOf(sc, p) == {g \in Valid(sc) : NodeAt(sc, g).parent = p}

\* the child list of every live node holds exactly the live nodes whose
\* parent field names it, each once
ListsMatchParents(sc) ==
    \A p \in Valid(sc) :
        /\ {ChildList(sc, p)[k] : k \in 1..Len(ChildList(sc, p))} = ChildrenOf(sc, p)
        /\ Len(ChildList(sc, p)) = Cardinality(ChildrenOf(sc, p))

\* the list without the handle h, order kept
Without(list, h) == SelectSeq(list, LAMBDA g : g # h)

\* C32: hierarchy consistency under single parenting.  For every live node p
\* the nodes reached from p.firstChild by following nextSibling are exactly
\* the live nodes whose parent field is p, each exactly once; a successful
\* SetSceneNodeParent puts the node in front of the parent's list, and the
\* release of a child takes exactly that child out of the list.
C32_ListsUnderSingleParenting ==
    [][/\ status' = "ok"
       /\ ListsMatchParents(scenes')
       /\ (call'.op = "SetSceneNodeParent" /\ calls' = calls + 1 /\ call'.found
            /\ IsSceneNodeValid(scenes, call'.other)) =>
               ChildList(scenes', call'.other)
                   = <<call'.node>> \o ChildList(scenes, call'.other)
       /\ (call'.op = "ReleaseSceneNode" /\ calls' = calls + 1 /\ call'.found
            /\ IsSceneNodeValid(scenes, NodeAt(scenes, call'.node).parent)
            /\ IsSceneNodeValid(scenes', NodeAt(scenes, call'.node).parent)) =>
               ChildList(scenes', NodeAt(scenes, call'.node).parent)
                   = Without(ChildList(scenes, NodeAt(scenes, call'.node).parent), call'.node)
      ]_vars

\* a child behind the head of its parent's list of three was released and
\* the two others are still listed, the head first
C32_Witness ==
    /\ call.op = "ReleaseSceneNode" /\ call.found /\ status = "ok"
    /\ call.node \in released
    /\ call.other # call.node
    /\ IsSceneNodeValid(scenes, call.other)
    /\ IsSceneNodeValid(scenes, NodeAt(scenes, call.other).parent)
    /\ Len(ChildList(scenes, NodeAt(scenes, call.other).parent)) = 2
    /\ ChildList(scenes, NodeAt(scenes, call.other).parent)[1] = call.other

\* the fields of a node as AcquireSceneNode hands it out
HasDefaultFields(node) ==
    /\ node.position = 0 /\ node.rotation = 0 /\ node.scale = 1
    /\ node.parent = ZeroNodeId /\ node.firstChildId = ZeroNodeId
    /\ node.nextSiblingId = ZeroNodeId
    /\ node.model = ZeroModelId /\ node.name = 0 /\ node.userIdentifier = 0
    /\ node.modTRSGeneration = 1 /\ node.modTRSMarker = 0

NodeKept(before, after) ==
    /\ after.position = before.position /\ after.rotation = before.rotation
    /\ after.scale = before.scale
    /\ after.parent = before.parent /\ after.nextSiblingId = before.nextSiblingId
    /\ after.firstChildId = before.firstChildId
    /\ after.model = before.model /\ after.generation = before.generation

\* C34: DrawScene leaves shared model state unchanged.  When DrawScene
\* returns, the diffuse colour of every material of every model is what it
\* was before the call, and no node's position, rotation, scale, hierarchy
\* links, model reference or generation has changed.
C34_DrawKeepsSharedState ==
    [][(call'.op = "DrawScene" /\ calls' = calls + 1 /\ status' = "ok") =>
          /\ materials' = materials
          /\ Len(scenes') = Len(scenes)
          /\ \A s \in 1..Len(scenes) :
                /\ Len(scenes'[s].nodes) = Len(scenes[s].nodes)
                /\ \A i \in 1..Len(scenes[s].nodes) :
                      NodeKept(scenes[s].nodes[i], scenes'[s].nodes[i])]_vars

\* a draw with a camera that drew the meshes of two nodes holding the model
\* whose two meshes share one material
C34_Witness ==
    /\ call.op = "DrawScene" /\ call.camera /\ status = "ok"
    /\ Cardinality(call.view) = 2
    /\ \A i \in call.view : ModelOfSlot(scenes, call.scene, i).meshCount = 2
    /\ call.stats.meshDrawCount = 4

\* C35: with the drawBoundingBoxes toggle set, DrawScene draws a wireframe
\* box only for meshes that passed culling in the same call: the number of
\* boxes drawn equals meshDrawCount.
C35_BoxesOnlyForDrawnMeshes ==
    (call.op = "DrawScene" /\ call.found /\ call.drawBoundingBoxes /\ status = "ok") =>
        call.boxes = call.stats.meshDrawCount

\* a draw with the toggle set in which meshes were drawn, none culled
C35_Witness ==
    /\ call.op = "DrawScene" /\ call.found /\ call.drawBoundingBoxes /\ status = "ok"
    /\ call.stats.meshDrawCount > 0
    /\ call.boxes = call.stats.meshDrawCount

\* C36: every arena slot is zero before its fields are first read.  The
\* first occupant of a new slot of the node arena, the model arena and the
\* scene arena gets generation exactly 1, and LoadScene always returns a
\* handle with generation >= 1 that satisfies IsSceneValid.
C36_NewSlotsStartAtOne ==
    [][/\ (call'.op = "AcquireSceneNode" /\ calls' = calls + 1 /\ call'.ret # ZeroNodeId
            /\ status' = "ok"
            /\ Len(scenes'[call'.scene.id + 1].nodes) > Len(scenes[call'.scene.id + 1].nodes)) =>
               call'.ret.generation = 1
       /\ (call'.op = "AddModelToScene" /\ calls' = calls + 1 /\ call'.model # ZeroModelId
            /\ status' = "ok") =>
               call'.model.generation = 1
       /\ (call'.op = "LoadScene" /\ calls' = calls + 1) =>
               /\ call'.scene.generation >= 1
               /\ IsSceneValid(scenes', call'.scene)
               /\ Len(scenes') > Len(scenes) => call'.scene.generation = 1]_vars

\* a second scene slot was added and its first occupant has generation 1
C36_Witness ==
    /\ call.op = "LoadScene" /\ call.scene = SceneIdOf(1, 1)
    /\ IsSceneValid(scenes, call.scene)

\* C38: the all-zero handle is never valid.  In every reachable state
\* IsSceneValid and IsSceneNodeValid are false for the zero handles, and
\* DrawScene never takes the all-zero SceneModelId of a node for a
\* registered model.
C38_ZeroHandleNeverValid ==
    /\ ~IsSceneValid(scenes, ZeroSceneId)
    /\ ~IsSceneNodeValid(scenes, ZeroNodeId)
    /\ (call.op = "DrawScene" /\ call.found /\ status = "ok") =>
          \A i \in call.drawn :
              scenes[call.scene.id + 1].nodes[i + 1].model # ZeroModelId

\* a draw of a scene with a registered model and two live nodes, one with
\* the model and one with no model
C38_Witness ==
    /\ call.op = "DrawScene" /\ call.found /\ status = "ok"
    /\ scenes[call.scene.id + 1].models # <<>>
    /\ call.drawn # {}
    /\ \E i \in LiveSlots(scenes, call.scene) :
          /\ scenes[call.scene.id + 1].nodes[i + 1].model = ZeroModelId
          /\ i \notin call.drawn

\* C39: a node draws only the model its handle was issued for.  When a node
\* of the scene drawn holds a SceneModelId whose ownerSceneId names another
\* scene, DrawScene does not draw a record of the drawn scene's own registry
\* for it.
C39_ForeignModelNotDrawnAsOwn ==
    (call.op = "DrawScene" /\ call.found /\ status = "ok") =>
        \A i \in call.drawn :
            LET m == scenes[call.scene.id + 1].nodes[i + 1].model
            IN  m.id < Len(scenes[call.scene.id + 1].models)
                    => m.ownerSceneId.id = call.scene.id

\* a draw of a scene one of whose live nodes holds the handle of a model
\* registered in the other scene
C39_Witness ==
    /\ call.op = "DrawScene" /\ call.found /\ status = "ok"
    /\ Len(scenes) = 2
    /\ \E i \in 0..(Len(scenes[call.scene.id + 1].nodes) - 1) :
          LET node == scenes[call.scene.id + 1].nodes[i + 1]
          IN  /\ node.generation > 0
              /\ node.model.generation > 0
              /\ node.model.ownerSceneId.id # call.scene.id
              /\ ModelResolves(scenes, node.model.ownerSceneId, node.model)

\* the name copies StringDup allocated so far
NameBlocks == {b \in heap : b.kind = "name"}

\* the name copy a node handle resolves to, if any
NameHeld(h) ==
    IF GetSceneNodeFound(scenes, h) /\ NodeAt(scenes, h).nameBlock # 0
    THEN {BlockKey("name", h.sceneId.id, h.id, NodeAt(scenes, h).nameBlock)} ELSE {}

\* no name copy was passed to MemFree twice
NamesFreedAtMostOnce == \A b \in NameBlocks : b.frees <= 1

\* the pointer GetSceneNodeName returned is null or a copy not freed
NameReturnedIsLive ==
    (call.op = "GetSceneNodeName" /\ call.block # 0) =>
        \A b \in NameBlocks :
            KeyOf(b) = BlockKey("name", call.node.sceneId.id, call.node.id, call.block)
                => b.frees = 0

\* a name copy not freed is the name of a node of a scene still loaded: one
\* of the handles issued resolves to it
NamesFreedWithScene ==
    \A b \in NameBlocks : b.frees = 0 => \E h \in issued : KeyOf(b) \in NameHeld(h)

\* C37: node name strings are freed exactly once.  Over every sequence of
\* SetSceneNodeName, ReleaseSceneNode (cascading into children) and
\* UnloadScene, each copy allocated by SetSceneNodeName is freed at most
\* once, is not returned by GetSceneNodeName after it was freed, and has been
\* freed once its node is released or the owning scene is no longer loaded.
C37_NamesFreedExactlyOnce ==
    /\ NamesFreedAtMostOnce
    /\ NameReturnedIsLive
    /\ NamesFreedWithScene

\* UnloadScene freed the name of a node of the scene it unloaded
C37_Witness ==
    /\ call.op = "UnloadScene" /\ call.found /\ status = "ok"
    /\ \E b \in NameBlocks : b.scene = call.scene.id /\ b.frees = 1
    /\ \A b \in NameBlocks : b.frees = 1

\* every block of the given kinds allocated for the scene slot just unloaded
\* was freed exactly once
UnloadFreed(kinds) ==
    (call.op = "UnloadScene" /\ call.found /\ status = "ok") =>
        \A b \in heap : (b.scene = call.scene.id /\ b.kind \in kinds) => b.frees = 1

\* the model array, the bounds and spheres caches and the node names
UnloadFreesModelsAndNames == UnloadFreed({"models", "bounds", "spheres", "name"})

\* C40: UnloadScene returns all storage the scene owns.  After UnloadScene of
\* a valid scene, the scene's model array, every model's bounding-box and
\* bounding-sphere cache, every node name and the scene's node array have
\* each been freed exactly once: no block allocated on behalf of the scene is
\* still allocated.
C40_UnloadFreesAllStorage ==
    UnloadFreed({"models", "bounds", "spheres", "name", "nodes"})

\* an UnloadScene of a scene that had a node array, a named node and a model
C40_Witness ==
    /\ call.op = "UnloadScene" /\ call.found /\ status = "ok"
    /\ \A k \in {"models", "bounds", "spheres", "name", "nodes"} :
           \E b \in heap : b.scene = call.scene.id /\ b.kind = k

====
